---- MODULE Spec2Model ----
(***************************************************************************)
(* A model of the persistence engine of Storage.py: the live object graph  *)
(* (StorageBase objects holding MutableRelationship containers and single  *)
(* items), the two write backends (DictStorageWriter, DbStorageWriter) and *)
(* the asynchronous write proxy (DbStorageWriterProxy).                    *)
(***************************************************************************)
EXTENDS Integers, Sequences, FiniteSets, TLC

(***************************************************************************)
(* Bounds of the model.                                                    *)
(***************************************************************************)
\* longest relationship container the owner builds
MaxLen == 3
\* how many calls the owner makes
MaxCalls == 5
\* how many calls the owner makes with the proxy attached
MaxProxyCalls == 3
\* how many calls the owner makes when their steps are recorded
MaxTraceCalls == 3

(***************************************************************************)
(* The objects of the live graph.  P is the root; A can be held by P; Z    *)
(* can be held by P and by A (a child shared by two parents).  The levels  *)
(* keep the graph acyclic.                                                 *)
(***************************************************************************)
Objs == {"P", "A", "Z"}
None == "None"

Level(o) == CASE o = "P" -> 0 [] o = "A" -> 1 [] OTHER -> 2

\* the objects the caller may put under o
Kids(o) == {c \in Objs : Level(c) > Level(o)}

\* the declared persistent shape of each object (StorageBase.__init__ and the
\* subclass constructors): key lists and type tag
storage_properties(o) == IF o \in {"A", "Z"} THEN <<"title">> ELSE <<>>
storage_items(o) == IF o \in {"P", "A"} THEN <<"item">> ELSE <<>>
storage_data_keys(o) == IF o = "Z" THEN <<"data">> ELSE <<>>
storage_relationships(o) == IF o \in {"P", "A"} THEN <<"rel">> ELSE <<>>
storage_type(o) == CASE o = "P" -> "data-group" [] o = "Z" -> "calibration" [] OTHER -> "data-item"

PropVals == {"", "t1"}
DataVals == {None, "d1"}

VARIABLES
    store,           \* store[o]: MutableRelationship.store of o's relationship
    single,          \* single[o]: the attribute behind o's single-item key, or None
    prop,            \* prop[o]: the attribute behind o's property key
    blob,            \* blob[o]: the attribute behind o's data key, or None
    storage_writer,  \* storage_writer[o]: whether o has the writer attached
    kind,            \* which writer is attached: "dict", "db" or "proxy"
    disconnected,    \* the writer's disconnected flag
    node_map,        \* DictStorageWriter.__node_map
    conn,            \* DbStorageWriter.conn: the tables of the connection
    err,             \* whether the last call of the owner raised
    calls,           \* how many calls the owner has made
    queue,           \* DbStorageWriterProxy.queue: the actions put and not yet got
    worker,          \* the proxy's thread: "running", "exited" or "died"
    unfinished,      \* queue.unfinished_tasks: puts not yet marked task_done
    events,          \* the units whose completion event is set
    waiting,         \* the unit whose event the owner waits on in to_string, or 0
    last_to_string,  \* DbStorageWriter.last_to_string
    returned,        \* what the owner's last to_string call returned
    issued,          \* how many units have been put on the queue
    done,            \* the units the worker has executed, in order
    failed,          \* the units that raised on the worker
    closed,          \* whether close() has been called
    premax,          \* how many units were put on the queue before close()
    shadow,          \* the tables of a DbStorageWriter attached directly and
                     \* given the owner's calls as they are made
    refCount,        \* refCount[o]: StorageBase.__refCount of o
    weak_observers,  \* weak_observers[o]: StorageBase.__weak_observers of o
    weak_listeners,  \* weak_listeners[o]: StorageBase.__weak_listeners of o
    weak_parents,    \* weak_parents[o]: StorageBase.__weak_parents of o
    deleted,         \* deleted[o]: how many times o.about_to_delete() has run
    reattached,      \* whether disconnected has been set back to False
    tracing,         \* whether the steps of the owner's calls are recorded
    log,             \* the steps of the owner's last call, in order
    raised,          \* the backends of a side-by-side run in which the last
                     \* writer call raised
    stmt,            \* the insert_item or remove_item call whose statements run
                     \* row by row, and the statement it is in
    reader,          \* the storage reader opened on the backend: its item map,
                     \* the objects it has built and what its last call returned
    committed        \* the tables of the database as of the last conn.commit()

(***************************************************************************)
(* Small helpers on maps (Python dicts) and lists.                         *)
(***************************************************************************)
EmptyMap == [x \in {} |-> x]
Put(m, k, v) == [x \in (DOMAIN m) \cup {k} |-> IF x = k THEN v ELSE m[x]]
Del(m, k) == [x \in (DOMAIN m) \ {k} |-> m[x]]

\* list.insert(index, x): negative indices count from the end, out-of-range clamps
PyInsertPos(s, index) ==
    IF index < 0 THEN (IF index + Len(s) < 0 THEN 0 ELSE index + Len(s))
    ELSE IF index > Len(s) THEN Len(s) ELSE index
PyInsert(s, index, x) ==
    LET p == PyInsertPos(s, index) IN
    SubSeq(s, 1, p) \o <<x>> \o SubSeq(s, p + 1, Len(s))

\* list[index] and del list[index]: IndexError outside -len..len-1
PyIndexOk(s, index) == index >= -Len(s) /\ index < Len(s)
PyPos(s, index) == IF index < 0 THEN index + Len(s) ELSE index
PyGet(s, index) == s[PyPos(s, index) + 1]
PyDel(s, index) ==
    LET p == PyPos(s, index) IN SubSeq(s, 1, p) \o SubSeq(s, p + 2, Len(s))

\* the (zero-based) indices of a list, as range(len(s))
Range0(s) == [i \in 1..Len(s) |-> i - 1]

(***************************************************************************)
(* The state a writer call works on.  A call threads a record S through    *)
(* its steps:                                                              *)
(*   kind      the writer the live objects hold: "dict", "db" or "proxy"   *)
(*   node_map  the in-memory backend's node map                            *)
(*   conn      the relational backend's tables                             *)
(*   wr        the storage_writer attribute of every live object           *)
(*   out       the units the call has put on the proxy's queue             *)
(*   ok        FALSE once a step has raised; the later steps are skipped   *)
(* and a record L gives the live graph the call reads:                     *)
(*   store, single, prop, blob                                             *)
(***************************************************************************)
Raise(S) == [S EXCEPT !.ok = FALSE]

\* a storage_writer setter that sets the attribute of the object alone
SetWriterShallow(wr, L, o, w) == [wr EXCEPT ![o] = w]

\* storage_writer setter: the object and everything it holds, recursively
RECURSIVE SetWriterSeq(_, _, _, _)
RECURSIVE SetWriter(_, _, _, _)
SetWriter(wr, L, o, w) ==
    LET wr0 == [wr EXCEPT ![o] = w]
        wr1 == IF Len(storage_items(o)) > 0 /\ L.single[o] # None
               THEN SetWriter(wr0, L, L.single[o], w) ELSE wr0
    IN  IF Len(storage_relationships(o)) > 0
        THEN SetWriterSeq(wr1, L, L.store[o], w) ELSE wr1
SetWriterSeq(wr, L, s, w) ==
    IF s = <<>> THEN wr
    ELSE SetWriterSeq(SetWriter(wr, L, Head(s), w), L, Tail(s), w)

(***************************************************************************)
(* StorageBase bookkeeping.  S.obj holds the ref counts and the weak       *)
(* observer, listener and parent lists of the live objects, and how often  *)
(* about_to_delete has run; S.log collects the steps of the call.          *)
(***************************************************************************)
\* an observer outside the graph (a panel): it implements every callback;
\* a StorageBase object that observes a member implements none
Watcher == "W"
HasCallback(observer, name) == observer = Watcher

Step(ev, o, arg) == [ev |-> ev, obj |-> o, arg |-> arg]
Logged(S, ev, o, arg) == [S EXCEPT !.log = Append(@, Step(ev, o, arg))]

\* x in list
PyIn(s, x) == \E i \in 1..Len(s) : s[i] = x
\* a remove that takes every occurrence of x out of the list
PyRemoveAll(s, x) ==
    LET keep == {i \in 1..Len(s) : s[i] # x}
        Nth(n) == CHOOSE i \in keep : Cardinality({j \in keep : j <= i}) = n
    IN  [n \in 1..Cardinality(keep) |-> s[Nth(n)]]

\* list.remove(x): the first occurrence goes (ValueError when there is none)
PyRemove(s, x) ==
    LET i == CHOOSE j \in 1..Len(s) : s[j] = x /\ \A k \in 1..(j - 1) : s[k] # x
    IN  SubSeq(s, 1, i - 1) \o SubSeq(s, i + 1, Len(s))

\* StorageBase.about_to_delete
about_to_delete(S, o) ==
    Logged([S EXCEPT !.obj.deleted[o] = @ + 1], "about_to_delete", o, None)

\* StorageBase.add_ref
add_ref(S, o) ==
    IF S.ok THEN Logged([S EXCEPT !.obj.refCount[o] = @ + 1], "add_ref", o, None) ELSE S

\* a remove_ref that calls about_to_delete whenever a reference is left
RemoveRefEager(S, o) ==
    IF ~S.ok THEN S
    ELSE IF ~(S.obj.refCount[o] > 0) THEN Raise(S)
    ELSE about_to_delete(Logged([S EXCEPT !.obj.refCount[o] = @ - 1],
                                "remove_ref", o, None), o)

\* StorageBase.remove_ref
remove_ref(S, o) ==
    IF ~S.ok THEN S
    ELSE IF ~(S.obj.refCount[o] > 0) THEN Raise(S)
    ELSE LET Zero(S1) == IF S1.obj.refCount[o] = 0 THEN about_to_delete(S1, o) ELSE S1
         IN  Zero(Logged([S EXCEPT !.obj.refCount[o] = @ - 1], "remove_ref", o, None))

\* StorageBase.add_observer
add_observer(S, o, observer) ==
    IF S.ok
    THEN Logged([S EXCEPT !.obj.weak_observers[o] = Append(@, observer)],
                "add_observer", o, observer)
    ELSE S

\* StorageBase.remove_observer
remove_observer(S, o, observer) ==
    IF ~S.ok THEN S
    ELSE IF ~PyIn(S.obj.weak_observers[o], observer) THEN Raise(S)
    ELSE Logged([S EXCEPT !.obj.weak_observers[o] = PyRemove(@, observer)],
                "remove_observer", o, observer)

\* StorageBase.add_listener
add_listener(S, o, listener) ==
    IF ~S.ok THEN S
    ELSE IF listener = None THEN Raise(S)
    ELSE Logged([S EXCEPT !.obj.weak_listeners[o] = Append(@, listener)],
                "add_listener", o, listener)

\* StorageBase.remove_listener
remove_listener(S, o, listener) ==
    IF ~S.ok THEN S
    ELSE IF listener = None \/ ~PyIn(S.obj.weak_listeners[o], listener) THEN Raise(S)
    ELSE Logged([S EXCEPT !.obj.weak_listeners[o] = PyRemove(@, listener)],
                "remove_listener", o, listener)

\* an add_parent that keeps one registration of each parent
AddParentOnce(S, o, parent) ==
    IF ~S.ok THEN S
    ELSE IF parent = None THEN Raise(S)
    ELSE Logged([S EXCEPT !.obj.weak_parents[o] =
                              IF \E i \in 1..Len(@) : @[i] = parent THEN @
                              ELSE Append(@, parent)],
                "add_parent", o, parent)

\* StorageBase.add_parent
add_parent(S, o, parent) ==
    IF ~S.ok THEN S
    ELSE IF parent = None THEN Raise(S)
    ELSE Logged([S EXCEPT !.obj.weak_parents[o] = Append(@, parent)],
                "add_parent", o, parent)

\* StorageBase.remove_parent
remove_parent(S, o, parent) ==
    IF ~S.ok THEN S
    ELSE IF parent = None \/ ~PyIn(S.obj.weak_parents[o], parent) THEN Raise(S)
    ELSE Logged([S EXCEPT !.obj.weak_parents[o] = PyRemove(@, parent)],
                "remove_parent", o, parent)

\* for weak_observer in self.__weak_observers: the callback of every observer
\* that implements it, in the order of the list
RECURSIVE Callbacks(_, _, _, _)
Callbacks(S, o, observers, name) ==
    IF ~S.ok \/ observers = <<>> THEN S
    ELSE Callbacks(IF HasCallback(Head(observers), name)
                   THEN Logged(S, "callback", o, name) ELSE S,
                   o, Tail(observers), name)

\* the loop of notify_set_item: the arguments of the callback name `value`,
\* which the method does not bind (NameError) 
RECURSIVE CallbacksUnbound(_, _, _, _)
CallbacksUnbound(S, o, observers, name) ==
    IF ~S.ok \/ observers = <<>> THEN S
    ELSE CallbacksUnbound(IF HasCallback(Head(observers), name) THEN Raise(S) ELSE S,
                          o, Tail(observers), name)

\* the writer call of a notify method has returned
Returned(S, o, name) == IF S.ok THEN Logged(S, "writer", o, name) ELSE S

\* a notify method is entered: the callback it is about, and its arguments
Entered(S, o, name, key, value, index) ==
    IF S.ok THEN Logged(S, "notify", o, <<name, key, value, index>>) ELSE S

(***************************************************************************)
(* DictStorageWriter.  A node is a Python dict: "ref-count" is always      *)
(* there; "type", "properties", "items", "relationships" and "data_arrays" *)
(* are there once written (has names the ones present).                    *)
(***************************************************************************)
NoType == "<no type>"
NewNode == [refcount |-> 0, has |-> {}, type |-> NoType, properties |-> EmptyMap,
            items |-> EmptyMap, relationships |-> EmptyMap, data_arrays |-> EmptyMap]

\* DictStorageWriter.__make_node
DictMakeNode(S, uuid) ==
    IF uuid \in DOMAIN S.node_map THEN S
    ELSE [S EXCEPT !.node_map = Put(@, uuid, NewNode)]

\* DictStorageWriter.__add_node_ref
DictAddNodeRef(S, uuid) ==
    IF ~S.ok THEN S
    ELSE IF uuid \notin DOMAIN S.node_map THEN Raise(S)
    ELSE [S EXCEPT !.node_map[uuid].refcount = @ + 1]

\* some order of a dict's keys
RECURSIVE KeysOf(_)
KeysOf(ks) == IF ks = {} THEN <<>>
              ELSE LET k == CHOOSE x \in ks : TRUE IN <<k>> \o KeysOf(ks \ {k})

\* DictStorageWriter.__remove_node_ref
RECURSIVE DictRemoveNodeRef(_, _)
RECURSIVE DictRemoveItems(_, _, _)
RECURSIVE DictRemoveList(_, _)
RECURSIVE DictRemoveRelationships(_, _, _)
DictRemoveNodeRef(S, uuid) ==
    IF ~S.ok THEN S
    ELSE IF uuid \notin DOMAIN S.node_map THEN Raise(S)
    ELSE LET S1 == [S EXCEPT !.node_map[uuid].refcount = @ - 1]
             \* the loop over the relationships, after the loop over the items
             Relationships(S2) ==
                 IF S2.ok /\ uuid \in DOMAIN S2.node_map
                 THEN DictRemoveRelationships(S2, uuid,
                          KeysOf(DOMAIN S2.node_map[uuid].relationships))
                 ELSE S2
             \* del self.__node_map[uuid]
             DelNode(S3) ==
                 IF ~S3.ok THEN S3
                 ELSE IF uuid \notin DOMAIN S3.node_map THEN Raise(S3)
                 ELSE [S3 EXCEPT !.node_map = Del(@, uuid)]
         IN  IF S1.node_map[uuid].refcount # 0 THEN S1
             ELSE DelNode(Relationships(
                      DictRemoveItems(S1, uuid, KeysOf(DOMAIN S1.node_map[uuid].items))))
\* for item_key in items.keys(): remove the ref, then del items[item_key]
DictRemoveItems(S, uuid, keys) ==
    IF ~S.ok \/ keys = <<>> THEN S
    ELSE LET item_uuid == S.node_map[uuid].items[Head(keys)]
             DelKey(S1) ==
                 IF ~S1.ok \/ uuid \notin DOMAIN S1.node_map THEN S1
                 ELSE DictRemoveItems(
                          [S1 EXCEPT !.node_map[uuid].items = Del(@, Head(keys))],
                          uuid, Tail(keys))
         IN  DelKey(DictRemoveNodeRef(S, item_uuid))
\* for item_uuid in list: remove the ref
DictRemoveList(S, list) ==
    IF ~S.ok \/ list = <<>> THEN S
    ELSE DictRemoveList(DictRemoveNodeRef(S, Head(list)), Tail(list))
\* for relationship_key in relationships.keys(): ...; del relationships[relationship_key]
DictRemoveRelationships(S, uuid, keys) ==
    IF ~S.ok \/ keys = <<>> THEN S
    ELSE LET DelKey(S1) ==
                 IF ~S1.ok \/ uuid \notin DOMAIN S1.node_map THEN S1
                 ELSE DictRemoveRelationships(
                          [S1 EXCEPT !.node_map[uuid].relationships = Del(@, Head(keys))],
                          uuid, Tail(keys))
         IN  DelKey(DictRemoveList(S, S.node_map[uuid].relationships[Head(keys)]))

\* DictStorageWriter.set_type
DictSetType(S, item, type) ==
    IF disconnected THEN S
    ELSE IF item \notin DOMAIN S.node_map THEN Raise(S)
    ELSE [S EXCEPT !.node_map[item].type = type,
                   !.node_map[item].has = @ \cup {"type"}]

\* DictStorageWriter.set_property
DictSetProperty(S, item, key, value) ==
    IF disconnected THEN S
    ELSE IF item \notin DOMAIN S.node_map THEN Raise(S)
    ELSE [S EXCEPT !.node_map[item].properties = Put(@, key, value),
                   !.node_map[item].has = @ \cup {"properties"}]

\* DictStorageWriter.set_data
DictSetData(S, parent, key, data) ==
    IF disconnected THEN S
    ELSE IF parent \notin DOMAIN S.node_map THEN Raise(S)
    ELSE [S EXCEPT !.node_map[parent].data_arrays = Put(@, key, data),
                   !.node_map[parent].has = @ \cup {"data_arrays"}]

\* DictStorageWriter.clear_item
DictClearItem(S, parent, key) ==
    IF disconnected THEN S
    ELSE IF parent \notin DOMAIN S.node_map THEN Raise(S)
    ELSE IF "items" \notin S.node_map[parent].has THEN Raise(S)
    ELSE IF key \notin DOMAIN S.node_map[parent].items THEN Raise(S)
    ELSE LET item_uuid == S.node_map[parent].items[key] IN
         DictRemoveNodeRef([S EXCEPT !.node_map[parent].items = Del(@, key)], item_uuid)

\* DictStorageWriter.remove_item
DictRemoveItem(S, parent, key, index) ==
    IF disconnected THEN S
    ELSE IF parent \notin DOMAIN S.node_map THEN Raise(S)
    ELSE IF "relationships" \notin S.node_map[parent].has THEN Raise(S)
    ELSE IF key \notin DOMAIN S.node_map[parent].relationships THEN Raise(S)
    ELSE LET list == S.node_map[parent].relationships[key] IN
         IF ~PyIndexOk(list, index) THEN Raise(S)
         ELSE DictRemoveNodeRef(
                  [S EXCEPT !.node_map[parent].relationships[key] = PyDel(list, index)],
                  PyGet(list, index))

\* DictStorageWriter.begin_rewrite
DictBeginRewrite(S) == [S EXCEPT !.node_map = EmptyMap]

\* DictStorageWriter.end_rewrite
DictEndRewrite(S) == S

\* DictStorageWriter.set_root
DictSetRoot(S, root) == IF disconnected THEN S ELSE DictMakeNode(S, root)

(***************************************************************************)
(* The writer interface as StorageBase.write and the notify_* methods see  *)
(* it: each call goes to the attached writer (kind).                       *)
(***************************************************************************)
RECURSIVE write(_, _, _)
RECURSIVE set_item(_, _, _, _, _)
RECURSIVE insert_item(_, _, _, _, _, _)

\* a unit of work of the proxy: the writer call it will make
Unit(op, obj, key, item, index, value) ==
    [op |-> op, obj |-> obj, key |-> key, item |-> item, index |-> index, value |-> value]
\* DbStorageWriterProxy.set_type .. set_data: queue.put of the call
Enqueue(S, unit) == [S EXCEPT !.out = Append(@, unit)]

(***************************************************************************)
(* DbStorageWriter.  The tables of the connection:                         *)
(*   nodes          uuid -> (type, refcount)        PRIMARY KEY(uuid)      *)
(*   properties     (uuid, key) -> value            PRIMARY KEY(uuid, key) *)
(*   data           (uuid, key) -> data             PRIMARY KEY(uuid, key) *)
(*   relationships  rows (parent_uuid, key, item_index, item_uuid)         *)
(*   items          rows (parent_uuid, key, item_uuid)                     *)
(* A uuid is stored as its string, a value as its pickle.                  *)
(***************************************************************************)
Str(uuid) == <<"str", uuid>>
UUID(str) == str[2]
Pickle(value) == <<"pickle", value>>
Unpickle(bytes) == bytes[2]
NULL == "NULL"

EmptyConn == [nodes |-> EmptyMap, properties |-> EmptyMap, data |-> EmptyMap,
              relationships |-> {}, items |-> {}]

RelRow(parent_uuid, key, item_index, item_uuid) ==
    [parent_uuid |-> parent_uuid, key |-> key, item_index |-> item_index,
     item_uuid |-> item_uuid]
ItemRow(parent_uuid, key, item_uuid) ==
    [parent_uuid |-> parent_uuid, key |-> key, item_uuid |-> item_uuid]

\* the relationships rows of (parent_uuid, key)
RowsOf(rows, parent_uuid, key) ==
    {r \in rows : r.parent_uuid = parent_uuid /\ r.key = key}

\* PRIMARY KEY(parent_uuid, key, item_index)
SameKey(r1, r2) ==
    r1.parent_uuid = r2.parent_uuid /\ r1.key = r2.key /\ r1.item_index = r2.item_index

\* UPDATE relationships SET item_index = ... WHERE sel, f[r] the new
\* item_index of row r: the statement fails (and changes nothing) when a
\* rewritten row meets the key of another row
UpdateCollides(rows, sel, f) ==
    \E r \in sel : \E r2 \in rows \ {r} :
        \/ SameKey([r EXCEPT !.item_index = f[r]], r2)
        \/ r2 \in sel /\ SameKey([r EXCEPT !.item_index = f[r]],
                                 [r2 EXCEPT !.item_index = f[r2]])
UpdateIndex(rows, sel, f) ==
    (rows \ sel) \cup {[r EXCEPT !.item_index = f[r]] : r \in sel}

\* conn.commit(), the last statement of a call: not reached when the call
\* has raised
Commit(S) == IF S.ok THEN [S EXCEPT !.com = S.conn] ELSE S

\* DbStorageWriter.__make_node
DbMakeNode(S, uuid) ==
    IF Str(uuid) \in DOMAIN S.conn.nodes THEN S
    ELSE [S EXCEPT !.conn.nodes = Put(@, Str(uuid), [type |-> NULL, refcount |-> 0])]

\* DbStorageWriter.__add_node_ref
DbAddNodeRef(S, uuid) ==
    IF ~S.ok THEN S
    ELSE IF Str(uuid) \in DOMAIN S.conn.nodes
         THEN [S EXCEPT !.conn.nodes[Str(uuid)].refcount = @ + 1]
         ELSE S

\* the item_uuid column of the relationships rows of a parent, in index order
RECURSIVE RowsInOrder(_)
RowsInOrder(rows) ==
    IF rows = {} THEN <<>>
    ELSE LET r == CHOOSE x \in rows : \A y \in rows :
                      x.key # y.key \/ x.item_index <= y.item_index
         IN  <<r.item_uuid>> \o RowsInOrder(rows \ {r})

\* DbStorageWriter.__remove_node_ref
RECURSIVE DbRemoveNodeRef(_, _)
RECURSIVE DbRemoveList(_, _)
DbRemoveNodeRef(S, uuid) ==
    IF ~S.ok THEN S
    ELSE IF Str(uuid) \notin DOMAIN S.conn.nodes THEN Raise(S)
    ELSE LET S1 == [S EXCEPT !.conn.nodes[Str(uuid)].refcount = @ - 1]
             S2 == [S1 EXCEPT
                       !.conn.properties =
                           [k \in {x \in DOMAIN @ : x[1] # Str(uuid)} |-> @[k]],
                       !.conn.data =
                           [k \in {x \in DOMAIN @ : x[1] # Str(uuid)} |-> @[k]]]
             fetchall == RowsInOrder({r \in S.conn.relationships :
                                         r.parent_uuid = Str(uuid)})
             \* DELETE FROM relationships, DELETE FROM nodes
             DeleteRows(S3) ==
                 IF ~S3.ok THEN S3
                 ELSE [S3 EXCEPT
                          !.conn.relationships = {r \in @ : r.parent_uuid # Str(uuid)},
                          !.conn.nodes = Del(@, Str(uuid))]
         IN  IF S1.conn.nodes[Str(uuid)].refcount # 0 THEN S1
             ELSE DeleteRows(DbRemoveList(S2, fetchall))
DbRemoveList(S, fetchall) ==
    IF ~S.ok \/ fetchall = <<>> THEN S
    ELSE DbRemoveList(DbRemoveNodeRef(S, UUID(Head(fetchall))), Tail(fetchall))

\* DbStorageWriter.set_type
DbSetType(S, item, type) ==
    IF disconnected THEN S
    ELSE Commit(IF Str(item) \in DOMAIN S.conn.nodes
                THEN [S EXCEPT !.conn.nodes[Str(item)].type = type]
                ELSE S)

\* DbStorageWriter.set_property
DbSetProperty(S, item, key, value) ==
    IF disconnected THEN S
    ELSE Commit([S EXCEPT !.conn.properties = Put(@, <<Str(item), key>>, Pickle(value))])

\* DbStorageWriter.set_data
DbSetData(S, parent, key, data) ==
    IF disconnected THEN S
    ELSE Commit([S EXCEPT !.conn.data = Put(@, <<Str(parent), key>>, Pickle(data))])

\* DbStorageWriter.set_item
DbSetItem(S, L, parent, key, item) ==
    IF disconnected THEN S
    ELSE LET \* INSERT INTO items, __add_node_ref
             InsertRow(S1) ==
                 IF ~S1.ok THEN S1
                 ELSE IF \E r \in S1.conn.items :
                             r.parent_uuid = Str(parent) /\ r.key = key
                      THEN Raise(S1)
                 ELSE DbAddNodeRef(
                          [S1 EXCEPT !.conn.items =
                                         @ \cup {ItemRow(Str(parent), key, Str(item))}],
                          item)
         IN  Commit(InsertRow(write(DbMakeNode(S, item), L, item)))

\* DbStorageWriter.clear_item
DbClearItem(S, parent, key) ==
    IF disconnected THEN S
    ELSE LET found == {r \in S.conn.items : r.parent_uuid = Str(parent) /\ r.key = key} IN
         IF found = {} THEN Raise(S)
         ELSE LET item_uuid == UUID((CHOOSE r \in found : TRUE).item_uuid) IN
              Commit(DbRemoveNodeRef([S EXCEPT !.conn.items = @ \ found], item_uuid))

\* the two UPDATE passes of DbStorageWriter.insert_item
InsertShiftUp(item_index) == -(item_index + 1)
InsertShiftBack(item_index) == -item_index
DbInsertShift(S, parent, key, before) ==
    LET rows0 == S.conn.relationships
        sel1 == {r \in RowsOf(rows0, Str(parent), key) : r.item_index >= before}
        set1 == [r \in sel1 |-> InsertShiftUp(r.item_index)]
        rows1 == UpdateIndex(rows0, sel1, set1)
        sel2 == {r \in RowsOf(rows1, Str(parent), key) : r.item_index < -before}
        set2 == [r \in sel2 |-> InsertShiftBack(r.item_index)]
        rows2 == UpdateIndex(rows1, sel2, set2)
    IN  IF UpdateCollides(rows0, sel1, set1) THEN Raise(S)
        ELSE IF UpdateCollides(rows1, sel2, set2)
             THEN Raise([S EXCEPT !.conn.relationships = rows1])
        ELSE [S EXCEPT !.conn.relationships = rows2]

\* DbStorageWriter.insert_item
DbInsertItem(S, L, parent, key, item, before) ==
    IF disconnected THEN S
    ELSE LET row == RelRow(Str(parent), key, before, Str(item))
             \* the two UPDATEs
             Shift(S1) == IF S1.ok THEN DbInsertShift(S1, parent, key, before) ELSE S1
             \* INSERT INTO relationships, __add_node_ref
             InsertRow(S2) ==
                 IF ~S2.ok THEN S2
                 ELSE IF \E r \in S2.conn.relationships : SameKey(r, row) THEN Raise(S2)
                 ELSE DbAddNodeRef([S2 EXCEPT !.conn.relationships = @ \cup {row}], item)
         IN  Commit(InsertRow(Shift(write(DbMakeNode(S, item), L, item))))

\* the two UPDATE passes of DbStorageWriter.remove_item
RemoveShiftDown(item_index) == -(item_index - 1)
RemoveShiftBack(item_index) == -item_index
DbRemoveShift(S, parent, key, index) ==
    LET rows0 == S.conn.relationships
        sel1 == {r \in RowsOf(rows0, Str(parent), key) : r.item_index > index}
        set1 == [r \in sel1 |-> RemoveShiftDown(r.item_index)]
        rows1 == UpdateIndex(rows0, sel1, set1)
        sel2 == {r \in RowsOf(rows1, Str(parent), key) : r.item_index <= -index}
        set2 == [r \in sel2 |-> RemoveShiftBack(r.item_index)]
        rows2 == UpdateIndex(rows1, sel2, set2)
    IN  IF UpdateCollides(rows0, sel1, set1) THEN Raise(S)
        ELSE IF UpdateCollides(rows1, sel2, set2)
             THEN Raise([S EXCEPT !.conn.relationships = rows1])
        ELSE [S EXCEPT !.conn.relationships = rows2]

\* DbStorageWriter.remove_item
DbRemoveItem(S, parent, key, index) ==
    IF disconnected THEN S
    ELSE LET found == {r \in RowsOf(S.conn.relationships, Str(parent), key) :
                          r.item_index = index} IN
         IF found = {} THEN Raise(S)
         ELSE LET item_uuid == UUID((CHOOSE r \in found : TRUE).item_uuid)
                  S1 == DbRemoveShift([S EXCEPT !.conn.relationships = @ \ found],
                                      parent, key, index)
              IN  Commit(DbRemoveNodeRef(S1, item_uuid))

\* DbStorageWriter.begin_rewrite
DbBeginRewrite(S) ==
    [S EXCEPT !.conn.nodes = EmptyMap, !.conn.properties = EmptyMap,
              !.conn.data = EmptyMap, !.conn.relationships = {}]

\* DbStorageWriter.end_rewrite
DbEndRewrite(S) == Commit(S)

\* DbStorageWriter.set_root
DbSetRoot(S, root) == DbMakeNode(S, root)

\* DictStorageWriter.set_item
DictSetItem(S, L, parent, key, item) ==
    IF disconnected THEN S
    ELSE LET \* items[key] = item.uuid, __add_node_ref
             SetEntry(S1) ==
                 IF ~S1.ok THEN S1
                 ELSE IF parent \notin DOMAIN S1.node_map THEN Raise(S1)
                 ELSE DictAddNodeRef(
                          [S1 EXCEPT !.node_map[parent].items = Put(@, key, item),
                                     !.node_map[parent].has = @ \cup {"items"}],
                          item)
         IN  SetEntry(write(DictMakeNode(S, item), L, item))

\* DictStorageWriter.insert_item
DictInsertItem(S, L, parent, key, item, before) ==
    IF disconnected THEN S
    ELSE LET \* list.insert(before, item.uuid), __add_node_ref
             InsertEntry(S1) ==
                 IF ~S1.ok THEN S1
                 ELSE IF parent \notin DOMAIN S1.node_map THEN Raise(S1)
                 ELSE LET rels == S1.node_map[parent].relationships
                          list == IF key \in DOMAIN rels THEN rels[key] ELSE <<>>
                      IN  DictAddNodeRef(
                              [S1 EXCEPT !.node_map[parent].relationships =
                                             Put(@, key, PyInsert(list, before, item)),
                                         !.node_map[parent].has = @ \cup {"relationships"}],
                              item)
         IN  InsertEntry(write(DictMakeNode(S, item), L, item))

(***************************************************************************)
(* The calls on the attached writer.                                       *)
(***************************************************************************)
set_type(S, item, type) ==
    IF ~S.ok THEN S
    ELSE CASE S.kind = "dict" -> DictSetType(S, item, type)
           [] S.kind = "db" -> DbSetType(S, item, type)
           [] OTHER -> Enqueue(S, Unit("set_type", item, "", None, 0, type))

set_property(S, item, key, value) ==
    IF ~S.ok THEN S
    ELSE CASE S.kind = "dict" -> DictSetProperty(S, item, key, value)
           [] S.kind = "db" -> DbSetProperty(S, item, key, value)
           [] OTHER -> Enqueue(S, Unit("set_property", item, key, None, 0, value))

set_data(S, parent, key, data) ==
    IF ~S.ok THEN S
    ELSE CASE S.kind = "dict" -> DictSetData(S, parent, key, data)
           [] S.kind = "db" -> DbSetData(S, parent, key, data)
           [] OTHER -> Enqueue(S, Unit("set_data", parent, key, None, 0, data))

set_item(S, L, parent, key, item) ==
    IF ~S.ok THEN S
    ELSE CASE S.kind = "dict" -> DictSetItem(S, L, parent, key, item)
           [] S.kind = "db" -> DbSetItem(S, L, parent, key, item)
           [] OTHER -> Enqueue(S, Unit("set_item", parent, key, item, 0, ""))

clear_item(S, parent, key) ==
    IF ~S.ok THEN S
    ELSE CASE S.kind = "dict" -> DictClearItem(S, parent, key)
           [] S.kind = "db" -> DbClearItem(S, parent, key)
           [] OTHER -> Enqueue(S, Unit("clear_item", parent, key, None, 0, ""))

insert_item(S, L, parent, key, item, before) ==
    IF ~S.ok THEN S
    ELSE CASE S.kind = "dict" -> DictInsertItem(S, L, parent, key, item, before)
           [] S.kind = "db" -> DbInsertItem(S, L, parent, key, item, before)
           [] OTHER -> Enqueue(S, Unit("insert_item", parent, key, item, before, ""))

remove_item(S, parent, key, index) ==
    IF ~S.ok THEN S
    ELSE CASE S.kind = "dict" -> DictRemoveItem(S, parent, key, index)
           [] S.kind = "db" -> DbRemoveItem(S, parent, key, index)
           [] OTHER -> Enqueue(S, Unit("remove_item", parent, key, None, index, ""))

begin_rewrite(S) ==
    IF ~S.ok THEN S
    ELSE CASE S.kind = "dict" -> DictBeginRewrite(S)
           [] S.kind = "db" -> DbBeginRewrite(S)
           [] OTHER -> Enqueue(S, Unit("begin_rewrite", None, "", None, 0, ""))

end_rewrite(S) ==
    IF ~S.ok THEN S
    ELSE CASE S.kind = "dict" -> DictEndRewrite(S)
           [] S.kind = "db" -> DbEndRewrite(S)
           [] OTHER -> Enqueue(S, Unit("end_rewrite", None, "", None, 0, ""))

set_root(S, root) ==
    IF ~S.ok THEN S
    ELSE CASE S.kind = "dict" -> DictSetRoot(S, root)
           [] S.kind = "db" -> DbSetRoot(S, root)
           [] OTHER -> Enqueue(S, Unit("set_root", root, "", None, 0, ""))

(***************************************************************************)
(* StorageBase.write: properties, single items, data, relationships, type. *)
(***************************************************************************)
RECURSIVE WriteProperties(_, _, _, _)
WriteProperties(S, L, o, keys) ==
    IF ~S.ok \/ keys = <<>> THEN S
    ELSE LET value == L.prop[o]
             S1 == IF value # "" THEN set_property(S, o, Head(keys), value) ELSE S
         IN  WriteProperties(S1, L, o, Tail(keys))

RECURSIVE WriteItems(_, _, _, _)
WriteItems(S, L, o, keys) ==
    IF ~S.ok \/ keys = <<>> THEN S
    ELSE LET item == L.single[o]
             S1 == IF item # None
                   THEN set_item([S EXCEPT !.wr = SetWriter(@, L, item, S.wr[o])],
                                 L, o, Head(keys), item)
                   ELSE S
         IN  WriteItems(S1, L, o, Tail(keys))

RECURSIVE WriteData(_, _, _, _)
WriteData(S, L, o, keys) ==
    IF ~S.ok \/ keys = <<>> THEN S
    ELSE LET data == L.blob[o]
             S1 == IF data # None THEN set_data(S, o, Head(keys), data) ELSE S
         IN  WriteData(S1, L, o, Tail(keys))

RECURSIVE WriteMembers(_, _, _, _, _)
WriteMembers(S, L, o, key, indices) ==
    IF ~S.ok \/ indices = <<>> THEN S
    ELSE LET index == Head(indices)
             item == L.store[o][index + 1]
         IN  WriteMembers(
                 insert_item([S EXCEPT !.wr = SetWriter(@, L, item, S.wr[o])],
                             L, o, key, item, index),
                 L, o, key, Tail(indices))

RECURSIVE WriteRelationships(_, _, _, _)
WriteRelationships(S, L, o, keys) ==
    IF ~S.ok \/ keys = <<>> THEN S
    ELSE WriteRelationships(WriteMembers(S, L, o, Head(keys), Range0(L.store[o])),
                            L, o, Tail(keys))

write(S, L, o) ==
    IF ~S.ok THEN S
    ELSE IF ~S.wr[o] THEN Raise(S)
    ELSE LET S1 == WriteProperties(S, L, o, storage_properties(o))
             S2 == WriteItems(S1, L, o, storage_items(o))
             S3 == WriteData(S2, L, o, storage_data_keys(o))
             S4 == WriteRelationships(S3, L, o, storage_relationships(o))
             \* if self.storage_writer: set_type
             Type(S5) == IF S5.ok /\ S5.wr[o] THEN set_type(S5, o, storage_type(o)) ELSE S5
         IN  Type(S4)

\* StorageBase.rewrite
rewrite(S, L, o) ==
    IF ~S.wr[o] THEN Raise(S)
    ELSE end_rewrite(write(set_root(begin_rewrite(S), o), L, o))

(***************************************************************************)
(* The owner's calls on the live graph, with a writer attached directly.   *)
(***************************************************************************)
\* the calls the owner may still make
CallLimit ==
    IF tracing THEN MaxTraceCalls ELSE IF kind = "proxy" THEN MaxProxyCalls ELSE MaxCalls

\* no insert_item or remove_item call is between two of its statements
Idle == [op |-> "idle", pass |-> 0, parent |-> None, key |-> "", item |-> None,
         index |-> 0, todo |-> {}, start |-> {}, collided |-> FALSE]

liveVars == <<store, single, prop, blob>>
\* no reader has been constructed
NoReader == [open |-> FALSE, item_map |-> EmptyMap, built |-> EmptyMap, made |-> EmptyMap,
             call |-> <<>>, ret |-> None, ok |-> TRUE]

auxVars == <<reattached, tracing, log, raised, stmt, reader, committed>>
objVars == <<refCount, weak_observers, weak_listeners, weak_parents, deleted>>
writerVars == <<kind, disconnected, node_map, conn>>
proxyVars == <<queue, worker, unfinished, events, waiting, last_to_string, returned,
               issued, done, failed, closed, premax, shadow>>
vars == <<store, single, prop, blob, storage_writer, kind, disconnected, node_map, conn,
          err, calls, queue, worker, unfinished, events, waiting, last_to_string,
          returned, issued, done, failed, closed, premax, shadow, refCount,
          weak_observers, weak_listeners, weak_parents, deleted, reattached, tracing,
          log, raised, stmt, reader, committed>>

Live == [store |-> store, single |-> single, prop |-> prop, blob |-> blob]
Obj == [refCount |-> refCount, weak_observers |-> weak_observers,
        weak_listeners |-> weak_listeners, weak_parents |-> weak_parents,
        deleted |-> deleted]

\* the state a call of the owner starts from
Call == [kind |-> kind, node_map |-> node_map, conn |-> conn, wr |-> storage_writer,
         out |-> <<>>, ok |-> TRUE, obj |-> Obj, log |-> <<>>, com |-> committed]
\* the same call on a DbStorageWriter attached directly
ShadowCall == [Call EXCEPT !.kind = "db", !.conn = shadow]

\* queue.put of the units a call made, by the owner's or the worker's thread
Entries(out, by) ==
    [i \in 1..Len(out) |->
        [unit |-> out[i], id |-> issued + i, by |-> by, preclose |-> ~closed,
         disc |-> disconnected]]

\* a notify_insert_item that registers the parent before it calls the writer
NotifyInsertParentFirst(S, L, o, key, value, before_index) ==
    LET Writer(S1) ==
            IF S1.ok /\ S1.wr[o]
            THEN Returned(insert_item([S1 EXCEPT !.wr = SetWriter(@, L, value, TRUE)],
                                      L, o, key, value, before_index),
                          o, "insert_item")
            ELSE S1
        Observers(S2) == Callbacks(S2, o, S2.obj.weak_observers[o], "item_inserted")
    IN  Observers(Writer(add_parent(
            Entered(S, o, "item_inserted", key, value, before_index), value, o)))

\* StorageBase.notify_insert_item
notify_insert_item(S, L, o, key, value, before_index) ==
    LET Writer(S1) ==
            IF S1.ok /\ S1.wr[o]
            THEN Returned(insert_item([S1 EXCEPT !.wr = SetWriter(@, L, value, TRUE)],
                                      L, o, key, value, before_index),
                          o, "insert_item")
            ELSE S1
        Observers(S2) == Callbacks(S2, o, S2.obj.weak_observers[o], "item_inserted")
    IN  Observers(add_parent(
            Writer(Entered(S, o, "item_inserted", key, value, before_index)), value, o))

\* a notify_remove_item that leaves the removed value's writer as it is
NotifyRemoveKeepsWriter(S, L, o, key, value, index) ==
    LET Writer(S1) ==
            IF S1.ok /\ S1.wr[o]
            THEN Returned(remove_item(S1, o, key, index), o, "remove_item")
            ELSE S1
        Observers(S2) == Callbacks(S2, o, S2.obj.weak_observers[o], "item_removed")
    IN  Observers(remove_parent(
            Writer(Entered(S, o, "item_removed", key, value, index)), value, o))

\* StorageBase.notify_remove_item
notify_remove_item(S, L, o, key, value, index) ==
    LET Detach(S1) ==
            IF S1.ok THEN [S1 EXCEPT !.wr = SetWriter(@, L, value, FALSE)] ELSE S1
        Writer(S1) ==
            IF S1.ok /\ S1.wr[o]
            THEN Detach(Returned(remove_item(S1, o, key, index), o, "remove_item"))
            ELSE S1
        Observers(S2) == Callbacks(S2, o, S2.obj.weak_observers[o], "item_removed")
    IN  Observers(remove_parent(
            Writer(Entered(S, o, "item_removed", key, value, index)), value, o))

\* StorageBase.notify_set_item
notify_set_item(S, L, o, key, item) ==
    LET Writer(S1) ==
            IF S1.ok /\ S1.wr[o]
            THEN Returned(set_item([S1 EXCEPT !.wr = SetWriter(@, L, item, TRUE)],
                                   L, o, key, item),
                          o, "set_item")
            ELSE S1
        Observers(S2) == CallbacksUnbound(S2, o, S2.obj.weak_observers[o], "item_set")
    IN  Observers(add_parent(Writer(Entered(S, o, "item_set", key, item, 0)), item, o))

\* StorageBase.notify_clear_item
notify_clear_item(S, L, o, key) ==
    LET Detach(S1) ==
            IF S1.ok THEN [S1 EXCEPT !.wr = SetWriter(@, L, L.single[o], FALSE)]
            ELSE S1
        Writer(S1) ==
            IF S1.ok /\ S1.wr[o]
            THEN Detach(Returned(clear_item(S1, o, key), o, "clear_item"))
            ELSE S1
        Observers(S2) == Callbacks(S2, o, S2.obj.weak_observers[o], "item_cleared")
    IN  IF L.single[o] # None
        THEN Observers(remove_parent(
                 Writer(Entered(S, o, "item_cleared", key, L.single[o], 0)),
                 L.single[o], o))
        ELSE S

\* StorageBase.notify_set_property
notify_set_property(S, o, key, value) ==
    LET Writer(S1) ==
            IF S1.ok /\ S1.wr[o]
            THEN Returned(set_property(S1, o, key, value), o, "set_property")
            ELSE S1
        Observers(S2) == Callbacks(S2, o, S2.obj.weak_observers[o], "property_changed")
    IN  Observers(Writer(Entered(S, o, "property_changed", key, value, 0)))

\* StorageBase.notify_set_data
notify_set_data(S, o, key, data) ==
    LET Writer(S1) ==
            IF S1.ok /\ S1.wr[o]
            THEN Returned(set_data(S1, o, key, data), o, "set_data")
            ELSE S1
        Observers(S2) == Callbacks(S2, o, S2.obj.weak_observers[o], "data_set")
    IN  Observers(Writer(Entered(S, o, "data_set", key, data, 0)))

(***************************************************************************)
(* The owner's thread.  A call F of the owner runs to its end (or to the   *)
(* step that raises) on the owner's thread; with the proxy attached the    *)
(* writer calls it makes are put on the queue.                             *)
(***************************************************************************)
OwnerCall(S, Direct) ==
    /\ calls < CallLimit
    /\ waiting = 0
    /\ node_map' = S.node_map
    /\ conn' = S.conn
    /\ committed' = S.com
    /\ storage_writer' = S.wr
    /\ refCount' = S.obj.refCount
    /\ weak_observers' = S.obj.weak_observers
    /\ weak_listeners' = S.obj.weak_listeners
    /\ weak_parents' = S.obj.weak_parents
    /\ deleted' = S.obj.deleted
    /\ log' = IF tracing THEN S.log ELSE <<>>
    /\ err' = ~S.ok
    /\ calls' = calls + 1
    /\ queue' = queue \o Entries(S.out, "owner")
    /\ issued' = issued + Len(S.out)
    /\ premax' = IF closed THEN premax ELSE issued'
    /\ unfinished' = unfinished + Len(S.out)
    /\ shadow' = IF kind = "proxy" THEN Direct.conn ELSE shadow
    /\ UNCHANGED <<kind, disconnected, worker, events, waiting, last_to_string,
                   returned, done, failed, closed, reattached, tracing, raised,
                   stmt, reader>>

\* root.rewrite()
Rewrite ==
    LET F(S) == rewrite(Logged(S, "call", "P", <<"rewrite">>), Live, "P") IN
    /\ \E S \in {F(Call)} : OwnerCall(S, F(ShadowCall))
    /\ UNCHANGED liveVars

\* MutableRelationship.insert(index, value) on o's relationship
Insert(o, index, value) ==
    /\ Len(storage_relationships(o)) > 0
    /\ Len(store[o]) < MaxLen
    /\ store' = [store EXCEPT ![o] = PyInsert(@, index, value)]
    /\ LET L == [Live EXCEPT !.store = store']
           Notify(S3) == notify_insert_item(S3, L, o, storage_relationships(o)[1],
                                            value, index)
           Observe(S2) == add_observer(S2, value, o)
           StoreInsert(S1) == Logged(S1, "store.insert", o, value)
           F(S) == Notify(Observe(StoreInsert(add_ref(S, value))))
       IN  \E S \in {F(Call)} : OwnerCall(S, F(ShadowCall))
    /\ UNCHANGED <<single, prop, blob>>

\* del container[index] on o's relationship
Delete(o, index) ==
    /\ Len(storage_relationships(o)) > 0
    /\ PyIndexOk(store[o], index)
    /\ store' = IF PyIn(weak_observers[PyGet(store[o], index)], o)
                THEN [store EXCEPT ![o] = PyDel(@, index)]
                ELSE store
    /\ LET L == [Live EXCEPT !.store = store']
           value == PyGet(store[o], index)
           RemoveRef(S3) == remove_ref(S3, value)
           Notify(S2) == notify_remove_item(S2, L, o, storage_relationships(o)[1],
                                            value, index)
           StoreDel(S1) == IF S1.ok THEN Logged(S1, "del store", o, value) ELSE S1
           F(S) == RemoveRef(Notify(StoreDel(remove_observer(S, value, o))))
       IN  \E S \in {F(Call)} : OwnerCall(S, F(ShadowCall))
    /\ UNCHANGED <<single, prop, blob>>

\* a container[index] = value that stores the value in the backing list
SetIndexStores(o, index, value) ==
    /\ Len(storage_relationships(o)) > 0
    /\ PyIndexOk(store[o], index)
    /\ LET F(S) == Logged(S, "call", o, <<"__setitem__", value>>)
       IN  \E S \in {F(Call)} : OwnerCall(S, F(ShadowCall))
    /\ store' = [store EXCEPT ![o][PyPos(store[o], index) + 1] = value]
    /\ UNCHANGED <<single, prop, blob>>

\* container[index] = value on o's relationship
SetIndex(o, index, value) ==
    /\ Len(storage_relationships(o)) > 0
    /\ LET F(S) == Raise(Logged(S, "call", o, <<"__setitem__", value>>))
       IN  \E S \in {F(Call)} : OwnerCall(S, F(ShadowCall))
    /\ UNCHANGED liveVars

\* the owner sets o's single item and calls notify_set_item
SetItem(o, item) ==
    /\ Len(storage_items(o)) > 0
    /\ single' = [single EXCEPT ![o] = item]
    /\ LET L == [Live EXCEPT !.single = single']
           F(S) == notify_set_item(S, L, o, storage_items(o)[1], item)
       IN  \E S \in {F(Call)} : OwnerCall(S, F(ShadowCall))
    /\ UNCHANGED <<store, prop, blob>>

\* the owner calls notify_clear_item and clears o's single item
ClearItem(o) ==
    /\ Len(storage_items(o)) > 0
    /\ single[o] # None
    /\ LET F(S) == notify_clear_item(S, Live, o, storage_items(o)[1]) IN \E S \in {F(Call)} : OwnerCall(S, F(ShadowCall))
    /\ single' = [single EXCEPT ![o] = None]
    /\ UNCHANGED <<store, prop, blob>>

\* the owner sets o's property and calls notify_set_property
SetProperty(o, value) ==
    /\ Len(storage_properties(o)) > 0
    /\ prop[o] # value
    /\ prop' = [prop EXCEPT ![o] = value]
    /\ LET F(S) == notify_set_property(S, o, storage_properties(o)[1], value)
       IN  \E S \in {F(Call)} : OwnerCall(S, F(ShadowCall))
    /\ UNCHANGED <<store, single, blob>>

\* the owner sets o's data and calls notify_set_data
SetData(o, data) ==
    /\ Len(storage_data_keys(o)) > 0
    /\ blob[o] # data
    /\ blob' = [blob EXCEPT ![o] = data]
    /\ LET F(S) == notify_set_data(S, o, storage_data_keys(o)[1], data) IN \E S \in {F(Call)} : OwnerCall(S, F(ShadowCall))
    /\ UNCHANGED <<store, single, prop>>

\* writer.disconnected = value
SetDisconnected(value) ==
    /\ calls < CallLimit
    /\ waiting = 0
    /\ disconnected # value
    /\ disconnected' = value
    /\ reattached' = (reattached \/ ~value)
    /\ err' = FALSE
    /\ calls' = calls + 1
    /\ UNCHANGED <<liveVars, objVars, storage_writer, kind, node_map, conn, proxyVars,
                   tracing, log, raised, stmt, reader, committed>>

(***************************************************************************)
(* The initial state: the objects and the writer are constructed, and the  *)
(* root has the writer attached and its node made                          *)
(* (root.storage_writer = writer; writer.set_root(root)); every other      *)
(* object is detached and empty.                                           *)
(***************************************************************************)
Root == "P"
RootConn == [EmptyConn EXCEPT !.nodes =
                Put(EmptyMap, Str(Root), [type |-> NULL, refcount |-> 0])]
NoString == <<>>
Dump(c) == <<<<"dump", c>>>>

InitLive ==
    /\ store = [o \in Objs |-> <<>>]
    /\ single = [o \in Objs |-> None]
    /\ prop = [o \in Objs |-> ""]
    /\ blob = [o \in Objs |-> None]
    /\ storage_writer = [o \in Objs |-> o = Root]
    /\ disconnected = FALSE
    /\ err = FALSE
    /\ calls = 0
    /\ refCount = [o \in Objs |-> 0]
    /\ weak_observers = [o \in Objs |-> <<>>]
    /\ weak_listeners = [o \in Objs |-> <<>>]
    /\ weak_parents = [o \in Objs |-> <<>>]
    /\ deleted = [o \in Objs |-> 0]
    /\ reattached = FALSE
    /\ log = <<>>
    /\ raised = {}
    /\ stmt = Idle
    /\ reader = NoReader
    /\ committed = EmptyConn

InitProxy ==
    /\ queue = <<>>
    /\ worker = "running"
    /\ unfinished = 0
    /\ events = {}
    /\ waiting = 0
    /\ last_to_string = NoString
    /\ returned = [valid |-> FALSE, str |-> NoString, expect |-> NoString]
    /\ issued = 0
    /\ done = <<>>
    /\ failed = {}
    /\ closed = FALSE
    /\ premax = 0

Init ==
    /\ InitLive
    /\ tracing = FALSE
    /\ InitProxy
    /\ kind \in {"dict", "db"}
    /\ node_map = IF kind = "dict" THEN Put(EmptyMap, Root, NewNode) ELSE EmptyMap
    /\ conn = IF kind = "db" THEN RootConn ELSE EmptyConn
    /\ shadow = EmptyConn

Next ==
    \/ Rewrite
    \/ \E o \in Objs : \E value \in Kids(o) : \E index \in 0..Len(store[o]) :
           Insert(o, index, value)
    \/ \E o \in Objs : \E index \in 0..(Len(store[o]) - 1) : Delete(o, index)
    \/ \E o \in Objs : \E item \in Kids(o) : SetItem(o, item)
    \/ \E o \in Objs : ClearItem(o)
    \/ \E o \in Objs : \E value \in PropVals : SetProperty(o, value)
    \/ \E o \in Objs : \E data \in DataVals : SetData(o, data)

\* the owner's calls on a graph whose writer stays connected
Spec == Init /\ [][Next]_vars

DiscNext ==
    \/ Next
    \/ \E value \in BOOLEAN : SetDisconnected(value)

\* the same, with the owner also setting and clearing the disconnected flag
DiscSpec == Init /\ [][DiscNext]_vars

(***************************************************************************)
(* DbStorageWriterProxy: the owner's calls put units on the queue, the     *)
(* worker thread runs them against the DbStorageWriter.                    *)
(***************************************************************************)
\* close() puts None
NoneAction == [unit |-> Unit("None", None, "", None, 0, ""), id |-> 0, by |-> "owner",
               preclose |-> FALSE, disc |-> FALSE]

\* a sentinel that could be indexed like a unit
AnyAction(action) == TRUE

\* action[0]: None has no items
Subscriptable(action) == action.unit.op # "None"

\* the truth value of action[0], a functools.partial
Truthy(action) == TRUE

\* item(): the DbStorageWriter method the unit was built from
RunUnit(S, L, unit) ==
    CASE unit.op = "set_type" -> DbSetType(S, unit.obj, unit.value)
      [] unit.op = "set_property" -> DbSetProperty(S, unit.obj, unit.key, unit.value)
      [] unit.op = "set_data" -> DbSetData(S, unit.obj, unit.key, unit.value)
      [] unit.op = "set_item" -> DbSetItem(S, L, unit.obj, unit.key, unit.item)
      [] unit.op = "clear_item" -> DbClearItem(S, unit.obj, unit.key)
      [] unit.op = "insert_item" ->
             DbInsertItem(S, L, unit.obj, unit.key, unit.item, unit.index)
      [] unit.op = "remove_item" -> DbRemoveItem(S, unit.obj, unit.key, unit.index)
      [] unit.op = "begin_rewrite" -> DbBeginRewrite(S)
      [] unit.op = "end_rewrite" -> DbEndRewrite(S)
      [] unit.op = "set_root" -> DbSetRoot(S, unit.obj)
      [] OTHER -> S

\* a queue.get() that hands out the newest action instead
DequeueNewest(q) == [action |-> q[Len(q)], rest |-> SubSeq(q, 1, Len(q) - 1)]

\* queue.get(): the oldest action, and the queue without it
Dequeue(q) == [action |-> Head(q), rest |-> Tail(q)]

\* an event.set() placed after item() inside the try
EventSetInTry(ev, action, S) == IF S.ok THEN ev \cup {action.id} ELSE ev

\* finally: event.set()
EventSet(ev, action, S) == ev \cup {action.id}

\* a loop without the except clause: the unit's exception ends the thread
WorkerUncaught(action, S) ==
    IF ~S.ok THEN "died" ELSE IF Truthy(action) THEN "running" ELSE "exited"

\* the thread after a turn that ran a unit: it breaks out of the loop only on
\* an action whose item is false; an exception of the unit was caught
WorkerAfter(action, S) == IF Truthy(action) THEN "running" ELSE "exited"

\* one turn of the loop of DbStorageWriterProxy.__run
Work ==
    /\ worker = "running"
    /\ queue # <<>>
    /\ LET action == Dequeue(queue).action
           rest == Dequeue(queue).rest
       IN
       IF ~Subscriptable(action)
       THEN \* item = action[0] raises TypeError outside the try: the thread ends
            /\ worker' = "died"
            /\ queue' = rest
            /\ UNCHANGED <<conn, committed, storage_writer, unfinished, events,
                           last_to_string, issued, premax, done, failed>>
       ELSE \E S \in {IF Truthy(action) THEN RunUnit(Call, Live, action.unit) ELSE Call} :
            /\ conn' = S.conn
            /\ committed' = S.com
            /\ storage_writer' = S.wr
            /\ queue' = rest \o Entries(S.out, "worker")
            /\ issued' = issued + Len(S.out)
            /\ premax' = IF closed THEN premax ELSE issued'
            /\ unfinished' = unfinished + Len(S.out) - 1
            /\ events' = IF Truthy(action) THEN EventSet(events, action, S) ELSE events
            /\ done' = IF Truthy(action) THEN Append(done, action) ELSE done
            /\ failed' = IF S.ok THEN failed ELSE failed \cup {action.id}
            /\ last_to_string' = IF action.unit.op = "to_string" /\ S.ok
                                 THEN Dump(S.conn) ELSE last_to_string
            /\ worker' = WorkerAfter(action, S)
    /\ UNCHANGED <<liveVars, objVars, reattached, tracing, log, raised, stmt, reader,
                   kind, disconnected, node_map, err, calls, waiting,
                   returned, closed, shadow>>

\* DbStorageWriterProxy.to_string, up to event.wait()
to_string ==
    /\ calls < CallLimit
    /\ waiting = 0
    /\ queue' = Append(queue, [unit |-> Unit("to_string", None, "", None, 0, ""),
                               id |-> issued + 1, by |-> "owner", preclose |-> ~closed,
                               disc |-> disconnected])
    /\ issued' = issued + 1
    /\ premax' = IF closed THEN premax ELSE issued'
    /\ unfinished' = unfinished + 1
    /\ waiting' = issued + 1
    /\ returned' = [valid |-> FALSE, str |-> NoString, expect |-> Dump(shadow)]
    /\ calls' = calls + 1
    /\ err' = FALSE
    /\ UNCHANGED <<liveVars, objVars, auxVars, storage_writer, writerVars, worker,
                   events, last_to_string,
                   done, failed, closed, shadow>>

\* DbStorageWriterProxy.to_string, from event.wait() on
to_string_return ==
    /\ waiting # 0
    /\ waiting \in events
    /\ returned' = [returned EXCEPT !.valid = TRUE, !.str = last_to_string]
    /\ last_to_string' = NoString
    /\ waiting' = 0
    /\ UNCHANGED <<liveVars, objVars, auxVars, storage_writer, writerVars, err, calls,
                   queue, worker,
                   unfinished, events, issued, done, failed, closed, premax, shadow>>

\* DbStorageWriterProxy.close
Close ==
    /\ calls < CallLimit
    /\ waiting = 0
    /\ ~closed
    /\ queue' = Append(queue, NoneAction)
    /\ unfinished' = unfinished + 1
    /\ closed' = TRUE
    /\ calls' = calls + 1
    /\ err' = FALSE
    /\ UNCHANGED <<liveVars, objVars, auxVars, storage_writer, writerVars, worker,
                   events, waiting,
                   last_to_string, returned, issued, done, failed, premax, shadow>>

ProxyInit ==
    /\ InitLive
    /\ tracing = FALSE
    /\ InitProxy
    /\ kind = "proxy"
    /\ node_map = EmptyMap
    /\ conn = RootConn
    /\ shadow = RootConn

ProxyNext ==
    \/ \E o \in Objs : \E value \in Kids(o) : \E index \in 0..Len(store[o]) :
           Insert(o, index, value)
    \/ \E o \in Objs : \E index \in 0..(Len(store[o]) - 1) : Delete(o, index)
    \/ \E o \in Objs : \E value \in PropVals : SetProperty(o, value)
    \/ to_string
    \/ to_string_return
    \/ Close
    \/ Work

ProxySpec == ProxyInit /\ [][ProxyNext]_vars

\* What a turn of the loop shows of itself: Work, and no other action, takes
\* the oldest action from the queue and either adds it to the executed units
\* or ends the thread.
WorkerTurn ==
    /\ worker = "running"
    /\ queue # <<>>
    /\ IF Subscriptable(Dequeue(queue).action)
       THEN done' = Append(done, Dequeue(queue).action) /\ worker' = "running"
       ELSE done' = done /\ worker' = "died"

\* the worker's thread is scheduled: blocked in queue.get() it takes its next
\* turn once the queue holds an action
FairProxySpec == ProxySpec /\ WF_<<done, worker>>(WorkerTurn)

(***************************************************************************)
(* The stored graph, read the same way from either backend.                *)
(***************************************************************************)
\* the tables the claims read: the proxy's backend is the DbStorageWriter
IsDict == kind = "dict"

\* the ids of the stored nodes
Stored == IF IsDict THEN DOMAIN node_map ELSE {UUID(u) : u \in DOMAIN conn.nodes}

\* the stored ref count of a stored node
RefCount(u) == IF IsDict THEN node_map[u].refcount ELSE conn.nodes[Str(u)].refcount

\* the single-item entries of stored node p that hold u
ItemEntries(p, u) ==
    IF IsDict
    THEN {<<"items", k>> : k \in {x \in DOMAIN node_map[p].items :
                                      node_map[p].items[x] = u}}
    ELSE {<<"items", r.key>> : r \in {x \in conn.items :
                                      x.parent_uuid = Str(p) /\ x.item_uuid = Str(u)}}

\* the relationship slots of stored node p that hold u
RelSlots(p, u) ==
    IF IsDict
    THEN LET rels == node_map[p].relationships IN
         UNION {{<<"relationships", k, i>> : i \in {x \in DOMAIN rels[k] : rels[k][x] = u}} :
                k \in DOMAIN rels}
    ELSE {<<"relationships", r.key, r.item_index>> :
             r \in {x \in conn.relationships :
                       x.parent_uuid = Str(p) /\ x.item_uuid = Str(u)}}

\* the number of references to u held by the stored nodes
Edges(u) ==
    Cardinality(UNION {{<<p, e>> : e \in ItemEntries(p, u)} : p \in Stored})
    + Cardinality(UNION {{<<p, e>> : e \in RelSlots(p, u)} : p \in Stored})

\* the nodes a stored node p refers to
Children(p) == {u \in Objs : ItemEntries(p, u) # {} \/ RelSlots(p, u) # {}}

\* the stored nodes that refer to u
Parents(u) == {p \in Stored : u \in Children(p)}

\* everything reachable from the nodes of set
RECURSIVE ReachFrom(_, _)
ReachFrom(set, seen) ==
    LET next == (UNION {Children(p) : p \in set}) \ seen IN
    IF next = {} THEN seen ELSE ReachFrom(next, seen \cup next)
Reach(n) == ReachFrom({n}, {})

\* whether the backend still holds a node, property, data, single-item or
\* relationship entry owned by u
HasEntries(u) ==
    IF IsDict THEN u \in DOMAIN node_map
    ELSE \/ Str(u) \in DOMAIN conn.nodes
         \/ \E k \in DOMAIN conn.properties : k[1] = Str(u)
         \/ \E k \in DOMAIN conn.data : k[1] = Str(u)
         \/ \E r \in conn.items : r.parent_uuid = Str(u)
         \/ \E r \in conn.relationships : r.parent_uuid = Str(u)

(***************************************************************************)
(* C1.  Relational backend, connected: an insert(index, value) or a        *)
(* del container[index] on the relationship of an attached parent, made    *)
(* when the rows of that relationship carry the item_index values 0..n-1   *)
(* in the container's order, leaves them so: one row per index, n the new  *)
(* length of the container, the row of index i naming its i-th member.     *)
(***************************************************************************)
RowsMatchContainer(o) ==
    LET rows == RowsOf(conn.relationships, Str(o), storage_relationships(o)[1]) IN
    /\ {r.item_index : r \in rows} = 0..(Len(store[o]) - 1)
    /\ Cardinality(rows) = Len(store[o])
    /\ \A r \in rows :
           r.item_index \in 0..(Len(store[o]) - 1)
               => UUID(r.item_uuid) = store[o][r.item_index + 1]

IsInsertOrDelete(o) == Len(store'[o]) # Len(store[o])

C1_IndexContiguous ==
    [][\A o \in Objs :
          (/\ kind = "db"
           /\ ~disconnected
           /\ storage_writer[o]
           /\ IsInsertOrDelete(o)
           /\ RowsMatchContainer(o)) => RowsMatchContainer(o)']_vars

(***************************************************************************)
(* C2.  Either backend, connected: a set_item, clear_item, insert_item or  *)
(* remove_item call made when the stored ref count of every node is the    *)
(* number of single-item entries and relationship slots, over all stored   *)
(* nodes, that hold the node's id, leaves it so.                           *)
(***************************************************************************)
RefCountIsEdgeCount ==
    \A u \in Stored : RefCount(u) = Edges(u)

IsItemCall == store' # store \/ single' # single

C2_RefCountIsEdgeCount ==
    [][(/\ kind \in {"dict", "db"}
        /\ ~disconnected
        /\ IsItemCall
        /\ RefCountIsEdgeCount) => RefCountIsEdgeCount']_vars

(***************************************************************************)
(* C3.  Either backend: when a remove_item or clear_item call deletes a    *)
(* node n, every node reachable from n whose references all come from n's  *)
(* subtree is deleted too, with all its entries, and no node referenced    *)
(* from outside the subtree is deleted.                                    *)
(***************************************************************************)
IsRemoveOrClear ==
    \/ \E o \in Objs : Len(store'[o]) < Len(store[o])
    \/ \E o \in Objs : single[o] # None /\ single'[o] = None

C3_CascadingDelete ==
    [][\A n \in Objs :
          (IsRemoveOrClear /\ ~err' /\ n \in Stored /\ n \notin Stored') =>
              /\ ~HasEntries(n)'
              /\ \A m \in Reach(n) :
                     IF Parents(m) \subseteq Reach(n) \cup {n}
                     THEN ~HasEntries(m)'
                     ELSE m \in Stored']_vars

(***************************************************************************)
(* C10.  Either backend: a call made while the disconnected flag is set    *)
(* leaves the stored state as it was.                                      *)
(***************************************************************************)
C10_DisconnectedIsNoOp ==
    [][disconnected => (node_map' = node_map /\ conn' = conn)]_vars

(***************************************************************************)
(* The proxy's queue as the claims read it.                                *)
(***************************************************************************)
IsOwnerUnit(e) == e.by = "owner" /\ Subscriptable(e)
IsWorkerUnit(e) == e.by = "worker"
Ids(seq) == {seq[i].id : i \in DOMAIN seq}
IdsAscend(seq) == \A i, j \in DOMAIN seq : i < j => seq[i].id < seq[j].id
SentinelTaken == closed /\ \A i \in DOMAIN queue : Subscriptable(queue[i])

(***************************************************************************)
(* C4.  Proxy: the units the owner's calls enqueued are executed in the    *)
(* order of the calls: the owner's units already executed, followed by the *)
(* owner's units still queued, are in the order they were issued.          *)
(***************************************************************************)
C4_OwnerUnitsInCallOrder ==
    IdsAscend(SelectSeq(done \o queue, IsOwnerUnit))

C4_Witness ==
    /\ Len(SelectSeq(done, IsOwnerUnit)) >= 2
    /\ Len(SelectSeq(done, IsWorkerUnit)) >= 1
    /\ Len(SelectSeq(queue, IsOwnerUnit)) >= 1

(***************************************************************************)
(* C5.  Proxy: only the owner's thread puts units on the queue, and when   *)
(* the queue has drained the relational backend holds what a directly      *)
(* attached DbStorageWriter holds after the same calls.                    *)
(***************************************************************************)
OwnerIsOnlyProducer == \A i \in DOMAIN queue : queue[i].by = "owner"
DrainedEqualsDirect == (queue = <<>> /\ worker = "running") => conn = shadow

C5_ProxyEquivalentToDirect == OwnerIsOnlyProducer /\ DrainedEqualsDirect

(***************************************************************************)
(* C6.  Proxy: when a unit raises on the worker's thread, its event is set *)
(* all the same, the thread keeps running, and the units queued behind it  *)
(* stay queued in their order, next to be executed.                        *)
(***************************************************************************)
C6_FailedUnitDoesNotStopWorker ==
    [][failed' # failed =>
          /\ worker' = "running"
          /\ (failed' \ failed) \subseteq events'
          /\ Len(queue') >= Len(queue) - 1
          /\ SubSeq(queue', 1, Len(queue) - 1) = Tail(queue)]_vars

C6_Witness ==
    \E i, j \in DOMAIN done :
        /\ i < j
        /\ done[i].id \in failed
        /\ done[i].id \in events
        /\ done[j].id \notin failed
        /\ IsOwnerUnit(done[j])

(***************************************************************************)
(* C7.  Proxy: once the worker has taken the sentinel close() enqueued,    *)
(* the thread has left its loop by the break, every action taken from the  *)
(* queue marked done.                                                      *)
(***************************************************************************)
C7_CloseEndsWorkerCleanly ==
    SentinelTaken => (worker = "exited" /\ unfinished = Len(queue))

(***************************************************************************)
(* C8.  Proxy, the worker scheduled fairly: every unit put on the queue    *)
(* before close() is executed, once.  No unit is on the queue or among the *)
(* executed units twice; a unit queued before close() leaves the queue     *)
(* only by being executed; and it does leave it: time and again the queue  *)
(* holds no unit put on it before close().  The three together give, for   *)
(* each such unit, that it is eventually executed.                         *)
(***************************************************************************)
Units(seq) == SelectSeq(seq, Subscriptable)
QueuedBeforeClose == {queue[i].id : i \in {x \in DOMAIN queue : queue[x].preclose}}
NoUnitTwice ==
    LET all == Units(done \o queue) IN
    \A i, j \in DOMAIN all : i # j => all[i].id # all[j].id
LeavesQueueOnlyExecuted ==
    \A id \in QueuedBeforeClose : id \notin QueuedBeforeClose' => id \in Ids(done')

C8_EveryUnitExecutedOnce ==
    /\ []NoUnitTwice
    /\ [][LeavesQueueOnlyExecuted]_vars
    /\ []<>(QueuedBeforeClose = {})

C8_Witness ==
    /\ closed
    /\ worker = "died"
    /\ QueuedBeforeClose = {}
    /\ \E i \in DOMAIN done : done[i].preclose /\ IsOwnerUnit(done[i])
    /\ \E i \in DOMAIN done : done[i].preclose /\ IsWorkerUnit(done[i])
    /\ \E i \in DOMAIN queue : ~queue[i].preclose

(***************************************************************************)
(* C9.  Proxy: the string to_string returns is the serialization of the    *)
(* state a backend holds that has taken in, whole, every write the owner   *)
(* issued before the call.                                                 *)
(***************************************************************************)
C9_ToStringReflectsPriorWrites ==
    returned.valid => returned.str = returned.expect

(***************************************************************************)
(* C11.  Either backend, attached directly: a mutation of the live graph   *)
(* (a property or data set, a single-item set or clear, a relationship     *)
(* insert or remove) on an attached object leaves the backend as it was    *)
(* while disconnected is true, and once disconnected has been set back to  *)
(* false it completes without error and changes the backend.               *)
(***************************************************************************)
Mutated(o) ==
    \/ store'[o] # store[o]
    \/ single'[o] # single[o]
    \/ prop'[o] # prop[o]
    \/ blob'[o] # blob[o]

BackendUnchanged == node_map' = node_map /\ conn' = conn

\* the mutations of the live graph, and the owner setting and clearing the
\* disconnected flag of the writer
WindowNext ==
    \/ \E o \in Objs : \E value \in Kids(o) : \E index \in 0..Len(store[o]) :
           Insert(o, index, value)
    \/ \E o \in Objs : \E index \in 0..(Len(store[o]) - 1) : Delete(o, index)
    \/ \E o \in Objs : \E item \in Kids(o) : SetItem(o, item)
    \/ \E o \in Objs : ClearItem(o)
    \/ \E o \in Objs : \E value \in PropVals : SetProperty(o, value)
    \/ \E o \in Objs : \E data \in DataVals : SetData(o, data)
    \/ \E value \in BOOLEAN : SetDisconnected(value)

WindowSpec == Init /\ [][WindowNext]_vars

C11_DisconnectedWindow ==
    [][\A o \in Objs :
          (kind \in {"dict", "db"} /\ storage_writer[o] /\ Mutated(o)) =>
              /\ disconnected => BackendUnchanged
              /\ (reattached /\ ~disconnected) => (~err' /\ ~BackendUnchanged)]_vars

(***************************************************************************)
(* The two backends side by side: every writer call is made on a           *)
(* DictStorageWriter and on a DbStorageWriter, both connected, with the    *)
(* same arguments; the items are live objects that have the writer under   *)
(* test attached, so that item.write() inside set_item and insert_item     *)
(* writes to it.                                                           *)
(***************************************************************************)
\* how many writer calls the side-by-side run makes
MaxPairCalls == 4

PairCall(D, B) ==
    /\ calls < MaxPairCalls
    /\ node_map' = D.node_map
    /\ conn' = B.conn
    /\ committed' = B.com
    /\ raised' = (IF D.ok THEN {} ELSE {"dict"}) \cup (IF B.ok THEN {} ELSE {"db"})
    /\ err' = (~D.ok \/ ~B.ok)
    /\ calls' = calls + 1
    /\ UNCHANGED <<liveVars, objVars, storage_writer, kind, disconnected, proxyVars,
                   reattached, tracing, log, stmt, reader>>

OnDict == [Call EXCEPT !.kind = "dict"]
OnDb == [Call EXCEPT !.kind = "db"]

PairBeginRewrite == PairCall(begin_rewrite(OnDict), begin_rewrite(OnDb))
PairSetRoot == PairCall(set_root(OnDict, Root), set_root(OnDb, Root))
PairSetType(o) ==
    PairCall(set_type(OnDict, o, storage_type(o)), set_type(OnDb, o, storage_type(o)))
PairSetProperty(o, value) ==
    PairCall(set_property(OnDict, o, "title", value),
             set_property(OnDb, o, "title", value))
PairSetData(o, data) ==
    PairCall(set_data(OnDict, o, "data", data), set_data(OnDb, o, "data", data))
PairSetItem(parent, item) ==
    PairCall(set_item(OnDict, Live, parent, "item", item),
             set_item(OnDb, Live, parent, "item", item))
PairClearItem(parent) ==
    PairCall(clear_item(OnDict, parent, "item"), clear_item(OnDb, parent, "item"))
PairInsertItem(parent, item, before) ==
    PairCall(insert_item(OnDict, Live, parent, "rel", item, before),
             insert_item(OnDb, Live, parent, "rel", item, before))
PairRemoveItem(parent, index) ==
    PairCall(remove_item(OnDict, parent, "rel", index),
             remove_item(OnDb, parent, "rel", index))

PairInit ==
    /\ InitProxy
    /\ store = [o \in Objs |-> <<>>]
    /\ single = [o \in Objs |-> None]
    /\ prop \in [Objs -> PropVals]
    /\ blob = [o \in Objs |-> None]
    /\ storage_writer = [o \in Objs |-> TRUE]
    /\ disconnected = FALSE
    /\ err = FALSE
    /\ calls = 0
    /\ refCount = [o \in Objs |-> 0]
    /\ weak_observers = [o \in Objs |-> <<>>]
    /\ weak_listeners = [o \in Objs |-> <<>>]
    /\ weak_parents = [o \in Objs |-> <<>>]
    /\ deleted = [o \in Objs |-> 0]
    /\ reattached = FALSE
    /\ tracing = FALSE
    /\ log = <<>>
    /\ raised = {}
    /\ stmt = Idle
    /\ reader = NoReader
    /\ committed = EmptyConn
    /\ kind = "pair"
    /\ node_map = EmptyMap
    /\ conn = EmptyConn
    /\ shadow = EmptyConn

PairNext ==
    \/ PairBeginRewrite
    \/ PairSetRoot
    \/ \E o \in Objs : PairSetType(o)
    \/ \E o \in Objs : PairSetProperty(o, "t1")
    \/ \E o \in Objs : PairSetData(o, "d1")
    \/ \E parent \in Objs : \E item \in Kids(parent) : PairSetItem(parent, item)
    \/ \E parent \in Objs : PairClearItem(parent)
    \/ \E parent \in Objs : \E item \in Kids(parent) : \E before \in 0..1 :
           PairInsertItem(parent, item, before)
    \/ \E parent \in Objs : \E index \in 0..1 : PairRemoveItem(parent, index)

PairSpec == PairInit /\ [][PairNext]_vars

\* the node graph a DictStorageWriter holds: per node id the type tag, the
\* ref count, the properties, the data, the single items and the non-empty
\* relationship lists
GraphOfDict(nm) ==
    [u \in DOMAIN nm |->
        [type |-> IF nm[u].type = NoType THEN None ELSE nm[u].type,
         refcount |-> nm[u].refcount,
         properties |-> nm[u].properties,
         data |-> nm[u].data_arrays,
         items |-> nm[u].items,
         relationships |->
             [k \in {x \in DOMAIN nm[u].relationships :
                        nm[u].relationships[x] # <<>>} |-> nm[u].relationships[k]]]]

\* the same graph read from the tables of a DbStorageWriter
GraphOfDb(c) ==
    [u \in {UUID(x) : x \in DOMAIN c.nodes} |->
        [type |-> IF c.nodes[Str(u)].type = NULL THEN None ELSE c.nodes[Str(u)].type,
         refcount |-> c.nodes[Str(u)].refcount,
         properties |->
             [k \in {x[2] : x \in {y \in DOMAIN c.properties : y[1] = Str(u)}} |->
                 Unpickle(c.properties[<<Str(u), k>>])],
         data |->
             [k \in {x[2] : x \in {y \in DOMAIN c.data : y[1] = Str(u)}} |->
                 Unpickle(c.data[<<Str(u), k>>])],
         items |->
             [k \in {r.key : r \in {x \in c.items : x.parent_uuid = Str(u)}} |->
                 UUID((CHOOSE r \in c.items :
                          r.parent_uuid = Str(u) /\ r.key = k).item_uuid)],
         relationships |->
             [k \in {r.key : r \in {x \in c.relationships : x.parent_uuid = Str(u)}} |->
                 LET ordered == RowsInOrder(RowsOf(c.relationships, Str(u), k))
                 IN  [i \in 1..Len(ordered) |-> UUID(ordered[i])]]]]

(***************************************************************************)
(* C12.  Side by side on the same writer calls, after every call the       *)
(* DictStorageWriter and the DbStorageWriter hold the same node graph, and *)
(* the call raised in both or in neither.                                  *)
(***************************************************************************)
C12_BackendsEquivalent ==
    /\ GraphOfDict(node_map) = GraphOfDb(conn)
    /\ raised \in {{}, {"dict", "db"}}

(***************************************************************************)
(* DbStorageWriter.insert_item and remove_item, statement by statement and *)
(* row by row.  An UPDATE takes the rows its WHERE clause selects and      *)
(* rewrites them one at a time, in any order; sqlite3 checks PRIMARY       *)
(* KEY(parent_uuid, key, item_index) as each row is rewritten or inserted. *)
(* The calls come from MutableRelationship.insert and __delitem__ of the   *)
(* relationships of P and A, with the indices a Python list accepts.       *)
(***************************************************************************)
\* the index arguments of MutableRelationship.insert
ShiftIndices == (0 - 1)..MaxLen

\* the rows of the relationship the call in progress works on
StmtRows == RowsOf(conn.relationships, stmt.parent, stmt.key)

\* WHERE parent_uuid=? AND key=? AND ..., for the UPDATE of the given pass
Selected(op, pass, rows, index) ==
    CASE op = "insert" /\ pass = 1 -> {r \in rows : r.item_index >= index}
      [] op = "insert" /\ pass = 2 -> {r \in rows : r.item_index < -index}
      [] op = "remove" /\ pass = 1 -> {r \in rows : r.item_index > index}
      [] OTHER -> {r \in rows : r.item_index <= -index}

\* SET item_index = ..., for the UPDATE of the given pass
Rewritten(op, pass, item_index) ==
    CASE op = "insert" /\ pass = 1 -> InsertShiftUp(item_index)
      [] op = "insert" /\ pass = 2 -> InsertShiftBack(item_index)
      [] op = "remove" /\ pass = 1 -> RemoveShiftDown(item_index)
      [] OTHER -> RemoveShiftBack(item_index)

\* whether a row with the key of r is in the table already
KeyTaken(rows, r) == \E r2 \in rows : SameKey(r, r2)

\* insert_item(parent, key, item, before), up to its first UPDATE
BeginInsert(parent, item, before) ==
    /\ stmt.op = "idle"
    /\ Cardinality(RowsOf(conn.relationships, Str(parent), "rel")) < MaxLen
    /\ stmt' = [op |-> "insert", pass |-> 1, parent |-> Str(parent), key |-> "rel",
                item |-> Str(item), index |-> before,
                todo |-> Selected("insert", 1,
                                  RowsOf(conn.relationships, Str(parent), "rel"), before),
                start |-> conn.relationships, collided |-> FALSE]
    /\ UNCHANGED conn

\* remove_item(parent, key, index): the SELECT and the DELETE of the row of
\* that index, up to the first UPDATE
BeginRemove(parent, index) ==
    /\ stmt.op = "idle"
    /\ \E row \in RowsOf(conn.relationships, Str(parent), "rel") :
           /\ row.item_index = index
           /\ conn' = [conn EXCEPT !.relationships = @ \ {row}]
           /\ stmt' = [op |-> "remove", pass |-> 1, parent |-> Str(parent),
                       key |-> "rel", item |-> row.item_uuid, index |-> index,
                       todo |-> Selected("remove", 1,
                                         RowsOf(conn.relationships, Str(parent), "rel")
                                             \ {row}, index),
                       start |-> conn.relationships \ {row}, collided |-> FALSE]

\* the UPDATE in progress rewrites one more of its rows; a row that meets the
\* key of another row ends the call with IntegrityError
RewriteRow(r) ==
    /\ stmt.op \in {"insert", "remove"}
    /\ stmt.pass \in {1, 2}
    /\ r \in stmt.todo
    /\ LET new == [r EXCEPT !.item_index = Rewritten(stmt.op, stmt.pass, @)] IN
       IF KeyTaken(conn.relationships \ {r}, new)
       THEN /\ stmt' = [Idle EXCEPT !.collided = TRUE]
            /\ UNCHANGED conn
       ELSE /\ conn' = [conn EXCEPT !.relationships = (@ \ {r}) \cup {new}]
            /\ stmt' = [stmt EXCEPT !.todo = @ \ {r}]

\* the first UPDATE is done: the second one selects its rows
NextPass ==
    /\ stmt.op \in {"insert", "remove"}
    /\ stmt.pass = 1
    /\ stmt.todo = {}
    /\ stmt' = [stmt EXCEPT !.pass = 2,
                            !.todo = Selected(stmt.op, 2, StmtRows, stmt.index)]
    /\ UNCHANGED conn

\* insert_item after its second UPDATE: INSERT INTO relationships
InsertRow ==
    /\ stmt.op = "insert"
    /\ stmt.pass = 2
    /\ stmt.todo = {}
    /\ LET row == RelRow(stmt.parent, stmt.key, stmt.index, stmt.item) IN
       IF KeyTaken(conn.relationships, row)
       THEN /\ stmt' = [Idle EXCEPT !.collided = TRUE]
            /\ UNCHANGED conn
       ELSE /\ conn' = [conn EXCEPT !.relationships = @ \cup {row}]
            /\ stmt' = [stmt EXCEPT !.pass = 3]

\* the call returns
EndShift ==
    /\ \/ stmt.op = "insert" /\ stmt.pass = 3
       \/ stmt.op = "remove" /\ stmt.pass = 2 /\ stmt.todo = {}
    /\ stmt' = Idle
    /\ UNCHANGED conn

ShiftStep(A) ==
    /\ A
    \* conn.commit() is the last statement of a call that did not raise
    /\ committed' = IF stmt.op # "idle" /\ stmt' = Idle /\ ~stmt'.collided
                    THEN conn' ELSE committed
    /\ UNCHANGED <<liveVars, objVars, storage_writer, kind, disconnected, node_map, err,
                   calls, proxyVars, reattached, tracing, log, raised, reader>>

ShiftInit ==
    /\ InitLive
    /\ InitProxy
    /\ tracing = FALSE
    /\ kind = "db"
    /\ node_map = EmptyMap
    /\ conn = RootConn
    /\ shadow = EmptyConn

ShiftNext ==
    \/ \E parent \in {"P", "A"} : \E item \in Kids(parent) : \E before \in ShiftIndices :
           ShiftStep(BeginInsert(parent, item, before))
    \/ \E parent \in {"P", "A"} : \E index \in ShiftIndices :
           ShiftStep(BeginRemove(parent, index))
    \/ \E r \in conn.relationships : ShiftStep(RewriteRow(r))
    \/ ShiftStep(NextPass)
    \/ ShiftStep(InsertRow)
    \/ ShiftStep(EndShift)

ShiftSpec == ShiftInit /\ [][ShiftNext]_vars

(***************************************************************************)
(* C13.  Inside insert_item and remove_item, after each rewritten row of   *)
(* the two UPDATE passes and after the INSERT: no row has met the key      *)
(* (parent_uuid, key, item_index) of another row, and every row the table  *)
(* held when the passes began that belongs to another (parent_uuid, key)   *)
(* or lies below the index of the call is still there as it was.           *)
(***************************************************************************)
BelowPartition(r) ==
    \/ r.parent_uuid # stmt.parent
    \/ r.key # stmt.key
    \/ r.item_index < stmt.index

C13_ShiftCollisionFree ==
    /\ ~stmt.collided
    /\ \A r1 \in conn.relationships : \A r2 \in conn.relationships \ {r1} :
           ~SameKey(r1, r2)
    /\ stmt.op # "idle" =>
           \A r \in stmt.start : BelowPartition(r) => r \in conn.relationships

(***************************************************************************)
(* The owner's calls with their steps recorded, on either backend attached *)
(* directly or behind the proxy; a panel registers as an observer of the   *)
(* objects.                                                                *)
(***************************************************************************)
\* o.add_observer(panel)
AddObserver(o) ==
    /\ ~PyIn(weak_observers[o], Watcher)
    /\ LET F(S) == add_observer(S, o, Watcher)
       IN  \E S \in {F(Call)} : OwnerCall(S, F(ShadowCall))
    /\ UNCHANGED liveVars

TraceInit ==
    /\ InitLive
    /\ InitProxy
    /\ tracing = TRUE
    /\ kind \in {"dict", "db", "proxy"}
    /\ node_map = IF kind = "dict" THEN Put(EmptyMap, Root, NewNode) ELSE EmptyMap
    /\ conn = IF kind = "dict" THEN EmptyConn ELSE RootConn
    /\ shadow = IF kind = "proxy" THEN RootConn ELSE EmptyConn

TraceNext ==
    \/ \E o \in Objs : AddObserver(o)
    \/ \E o \in Objs : \E value \in Kids(o) : \E index \in 0..Len(store[o]) :
           Insert(o, index, value)
    \/ \E o \in Objs : \E index \in 0..(Len(store[o]) - 1) : Delete(o, index)
    \/ \E o \in Objs : \E item \in Kids(o) : SetItem(o, item)
    \/ \E o \in Objs : ClearItem(o)
    \/ \E o \in Objs : \E value \in PropVals : SetProperty(o, value)
    \/ \E o \in Objs : \E data \in DataVals : SetData(o, data)
    \/ Work

TraceSpec == TraceInit /\ [][TraceNext]_vars

\* the positions of the log with a step of the given kind on object o
StepsOf(ev, o) == {i \in 1..Len(log) : log[i].ev = ev /\ log[i].obj = o}

\* whether some registered observer of o implements the callback
Observed(o, name) ==
    \E i \in 1..Len(weak_observers[o]) : HasCallback(weak_observers[o][i], name)

(***************************************************************************)
(* C14.  In every notify method: with a writer attached, the writer call   *)
(* has returned before the first observer callback of the mutation; with   *)
(* no writer attached, the observers that implement the callback are       *)
(* notified, no writer call is made and the backend is left as it was.     *)
(***************************************************************************)
C14_WriterBeforeObservers ==
    /\ [](\A o \in Objs :
            /\ storage_writer[o] =>
                   \A i \in StepsOf("callback", o) :
                       \E j \in StepsOf("writer", o) : j < i
            /\ ~storage_writer[o] =>
                   \A i \in StepsOf("notify", o) :
                       /\ Observed(o, log[i].arg[1]) =>
                              \E j \in StepsOf("callback", o) : j > i
                       /\ StepsOf("writer", o) = {})
    /\ [][\A o \in Objs :
             (~storage_writer[o] /\ StepsOf("notify", o)' # {} /\ calls' # calls)
                 => BackendUnchanged]_vars

(***************************************************************************)
(* C15.  Whatever writer is attached (a backend or the proxy): when an     *)
(* observer callback of a mutation is invoked, the backend holds that      *)
(* mutation -- the property or data value, the single-item entry, the      *)
(* relationship slot of an inserted member; no entry of a cleared item and *)
(* no more slots of a removed member than the container has.               *)
(***************************************************************************)
\* how many slots of a list hold x
Slots(s, x) == Cardinality({i \in 1..Len(s) : s[i] = x})

\* whether the backend holds the mutation a notify method of o was entered
\* with
InBackend(o, n) ==
    LET name == n[1]
        key == n[2]
        value == n[3]
    IN  CASE name = "property_changed" ->
                 IF IsDict
                 THEN /\ o \in DOMAIN node_map
                      /\ key \in DOMAIN node_map[o].properties
                      /\ node_map[o].properties[key] = value
                 ELSE /\ <<Str(o), key>> \in DOMAIN conn.properties
                      /\ Unpickle(conn.properties[<<Str(o), key>>]) = value
          [] name = "data_set" ->
                 IF IsDict
                 THEN /\ o \in DOMAIN node_map
                      /\ key \in DOMAIN node_map[o].data_arrays
                      /\ node_map[o].data_arrays[key] = value
                 ELSE /\ <<Str(o), key>> \in DOMAIN conn.data
                      /\ Unpickle(conn.data[<<Str(o), key>>]) = value
          [] name = "item_inserted" -> o \in Stored /\ RelSlots(o, value) # {}
          [] name = "item_set" -> o \in Stored /\ ItemEntries(o, value) # {}
          [] name = "item_cleared" -> o \in Stored => ItemEntries(o, value) = {}
          [] OTHER ->
                 o \in Stored => Cardinality(RelSlots(o, value)) <= Slots(store[o], value)

C15_DurableBeforeObservable ==
    \A o \in Objs :
        storage_writer[o] =>
            \A i \in StepsOf("callback", o) :
                \E j \in StepsOf("notify", o) : j < i /\ InBackend(o, log[j].arg)

(***************************************************************************)
(* The interface of StorageBase and of MutableRelationship called directly *)
(* on objects as their constructors leave them: ref count 0, no observers, *)
(* listeners, parents or writer.                                           *)
(***************************************************************************)
\* an API call on o: F is what it does after it is entered
ApiCall(S, Direct) ==
    /\ OwnerCall(S, Direct)
    /\ UNCHANGED liveVars

\* o.add_ref()
AddRef(o) ==
    LET F(S) == add_ref(Logged(S, "call", o, <<"add_ref", None>>), o)
    IN  \E S \in {F(Call)} : ApiCall(S, F(ShadowCall))

\* o.remove_ref()
RemoveRef(o) ==
    LET F(S) == remove_ref(Logged(S, "call", o, <<"remove_ref", None>>), o)
    IN  \E S \in {F(Call)} : ApiCall(S, F(ShadowCall))

\* o.add_observer(x), o.add_listener(x), o.add_parent(x)
Register(o, what, x) ==
    LET F(S) ==
            CASE what = "observer" ->
                     add_observer(Logged(S, "call", o, <<"add_observer", x>>), o, x)
              [] what = "listener" ->
                     add_listener(Logged(S, "call", o, <<"add_listener", x>>), o, x)
              [] OTHER ->
                     add_parent(Logged(S, "call", o, <<"add_parent", x>>), o, x)
    IN  \E S \in {F(Call)} : ApiCall(S, F(ShadowCall))

\* o.remove_observer(x), o.remove_listener(x), o.remove_parent(x)
Unregister(o, what, x) ==
    LET F(S) ==
            CASE what = "observer" ->
                     remove_observer(Logged(S, "call", o, <<"remove_observer", x>>), o, x)
              [] what = "listener" ->
                     remove_listener(Logged(S, "call", o, <<"remove_listener", x>>), o, x)
              [] OTHER ->
                     remove_parent(Logged(S, "call", o, <<"remove_parent", x>>), o, x)
    IN  \E S \in {F(Call)} : ApiCall(S, F(ShadowCall))

\* o.storage_writer = writer (w TRUE) or None (w FALSE)
SetStorageWriter(o, w) ==
    LET F(S) == [Logged(S, "call", o, <<"storage_writer", w>>)
                    EXCEPT !.wr = SetWriter(@, Live, o, w)]
    IN  \E S \in {F(Call)} : ApiCall(S, F(ShadowCall))

\* the objects a caller registers: the panel and the root
Registrants == {Watcher, Root}
Collections == {"observer", "listener", "parent"}
\* the object whose ref count and registrations the caller changes directly
ApiObjs == {"A"}

ObjInit ==
    /\ InitProxy
    /\ store = [o \in Objs |-> <<>>]
    /\ single = [o \in Objs |-> None]
    /\ prop = [o \in Objs |-> ""]
    /\ blob = [o \in Objs |-> None]
    /\ storage_writer = [o \in Objs |-> FALSE]
    /\ disconnected = FALSE
    /\ err = FALSE
    /\ calls = 0
    /\ refCount = [o \in Objs |-> 0]
    /\ weak_observers = [o \in Objs |-> <<>>]
    /\ weak_listeners = [o \in Objs |-> <<>>]
    /\ weak_parents = [o \in Objs |-> <<>>]
    /\ deleted = [o \in Objs |-> 0]
    /\ reattached = FALSE
    /\ tracing = TRUE
    /\ log = <<>>
    /\ raised = {}
    /\ stmt = Idle
    /\ reader = NoReader
    /\ committed = EmptyConn
    /\ kind \in {"dict", "db"}
    /\ node_map = IF kind = "dict" THEN Put(EmptyMap, Root, NewNode) ELSE EmptyMap
    /\ conn = IF kind = "db" THEN RootConn ELSE EmptyConn
    /\ shadow = EmptyConn

ObjNext ==
    \/ \E o \in ApiObjs : AddRef(o)
    \/ \E o \in ApiObjs : RemoveRef(o)
    \/ \E o \in ApiObjs : \E what \in Collections : \E x \in Registrants :
           Register(o, what, x)
    \/ \E o \in ApiObjs : \E what \in Collections : \E x \in Registrants :
           Unregister(o, what, x)
    \/ \E o \in Objs : \E w \in BOOLEAN : SetStorageWriter(o, w)
    \/ \E o \in Objs : \E value \in Kids(o) : \E index \in 0..Len(store[o]) :
           Insert(o, index, value)
    \/ \E o \in Objs : \E index \in 0..(Len(store[o]) - 1) : Delete(o, index)
    \/ \E o \in Objs : \E value \in Kids(o) : \E index \in 0..Len(store[o]) :
           SetIndex(o, index, value)
    \/ \E o \in Objs : \E item \in Kids(o) : SetItem(o, item)
    \/ \E o \in Objs : ClearItem(o)

ObjSpec == ObjInit /\ [][ObjNext]_vars

\* the call the log of the last step begins with, if it is an API call on o
IsCall(o, name) ==
    /\ calls' = calls + 1
    /\ Len(log') > 0
    /\ log'[1].ev = "call"
    /\ log'[1].obj = o
    /\ log'[1].arg[1] = name

(***************************************************************************)
(* C16.  An object starts with ref count 0 and no writer; the ref count    *)
(* is never negative; remove_ref on a count of zero raises, leaves the     *)
(* count at 0 and does not run about_to_delete; about_to_delete runs once  *)
(* in a step that takes the object's count from 1 to 0 through remove_ref  *)
(* and in no other step.                                                   *)
(***************************************************************************)
C16_RefCount ==
    /\ (calls = 0 => \A o \in Objs : refCount[o] = 0 /\ ~storage_writer[o])
    /\ [](\A o \in Objs : refCount[o] >= 0)
    /\ [][\A o \in Objs :
             /\ (IsCall(o, "remove_ref") /\ refCount[o] = 0) =>
                    (err' /\ refCount'[o] = 0 /\ deleted' = deleted)
             /\ deleted'[o] =
                    IF refCount[o] = 1 /\ refCount'[o] = 0 /\ StepsOf("remove_ref", o)' # {}
                    THEN deleted[o] + 1 ELSE deleted[o]]_vars

\* remove_ref has taken an object to zero, about_to_delete has run once, and a
\* further remove_ref on it has raised
C16_Witness ==
    \E o \in Objs :
        /\ deleted[o] = 1
        /\ refCount[o] = 0
        /\ err
        /\ log = <<Step("call", o, <<"remove_ref", None>>)>>

(***************************************************************************)
(* C17.  remove_observer, remove_listener and remove_parent with an object *)
(* that is not registered raise and leave the observers, listeners and     *)
(* parents as they were; with a registered object they return and take     *)
(* one registration of it out of their list, and nothing else.             *)
(***************************************************************************)
\* the list of o a collection name stands for
Registered(what, o) ==
    CASE what = "observer" -> weak_observers[o]
      [] what = "listener" -> weak_listeners[o]
      [] OTHER -> weak_parents[o]

RemoveName(what) ==
    CASE what = "observer" -> "remove_observer"
      [] what = "listener" -> "remove_listener"
      [] OTHER -> "remove_parent"

C17_RemoveUnregistered ==
    [][\A o \in Objs : \A what \in Collections : \A x \in Registrants :
          (IsCall(o, RemoveName(what)) /\ log'[1].arg[2] = x) =>
              IF PyIn(Registered(what, o), x)
              THEN /\ ~err'
                   /\ Slots(Registered(what, o)', x) = Slots(Registered(what, o), x) - 1
                   /\ Len(Registered(what, o)') = Len(Registered(what, o)) - 1
                   /\ \A y \in Registrants \ {x} :
                          Slots(Registered(what, o)', y) = Slots(Registered(what, o), y)
                   /\ \A p \in Objs : \A w \in Collections :
                          (p # o \/ w # what) => Registered(w, p)' = Registered(w, p)
              ELSE /\ err'
                   /\ weak_observers' = weak_observers
                   /\ weak_listeners' = weak_listeners
                   /\ weak_parents' = weak_parents]_vars

\* an object registered twice has been removed once: one registration is left
C17_Witness ==
    \E o \in Objs : \E x \in Registrants :
        /\ Len(log) = 2
        /\ log[1] = Step("call", o, <<"remove_observer", x>>)
        /\ ~err
        /\ Slots(weak_observers[o], x) = 1

(***************************************************************************)
(* C18.  o.storage_writer = w sets w on every object reachable from o      *)
(* through its single items and relationship members; it makes no writer   *)
(* call and no observer callback and leaves the backend, the queue and the *)
(* live graph as they are; made a second time it changes nothing.          *)
(***************************************************************************)
\* the objects o holds: its single item and the members of its relationship
Held(o) ==
    (IF Len(storage_items(o)) > 0 /\ single[o] # None THEN {single[o]} ELSE {})
    \cup (IF Len(storage_relationships(o)) > 0
          THEN {store[o][i] : i \in 1..Len(store[o])} ELSE {})

\* o and everything held below it
RECURSIVE Below(_, _)
Below(set, seen) ==
    LET next == (UNION {Held(p) : p \in set}) \ seen IN
    IF next = {} THEN seen ELSE Below(next, seen \cup next)

C18_WriterPropagates ==
    [][\A o \in Objs : \A w \in BOOLEAN :
          (IsCall(o, "storage_writer") /\ log'[1].arg[2] = w) =>
              /\ \A x \in Below({o}, {o}) : storage_writer'[x] = w
              /\ \A x \in Objs \ Below({o}, {o}) : storage_writer'[x] = storage_writer[x]
              /\ Len(log') = 1
              /\ ~err'
              /\ BackendUnchanged
              /\ UNCHANGED <<liveVars, objVars, queue, issued>>
              /\ SetWriter(storage_writer', Live, o, w) = storage_writer']_vars

\* the writer has been set on a parent that holds a member which holds Z
C18_Witness ==
    \E o \in Objs :
        /\ log = <<Step("call", o, <<"storage_writer", TRUE>>)>>
        /\ store[o] # <<>>
        /\ \A x \in Below({o}, {o}) : storage_writer[x]
        /\ Cardinality(Below({o}, {o})) = 3

(***************************************************************************)
(* C19.  MutableRelationship.insert does, in this order: value.add_ref,    *)
(* the insertion into the backing list, value.add_observer(owner),         *)
(* owner.notify_insert_item.  del container[index] does, in this order:    *)
(* value.remove_observer(owner), the removal from the backing list,        *)
(* owner.notify_remove_item (the writer's remove_item, then remove_parent) *)
(* and last value.remove_ref.  When about_to_delete of the removed value   *)
(* runs, the backend of an attached owner holds no slot for it that the    *)
(* container has not, and the owner is neither its observer nor its        *)
(* parent.                                                                 *)
(***************************************************************************)
InsertOrder(o, v) ==
    /\ Len(log) >= 4
    /\ log[1] = Step("add_ref", v, None)
    /\ log[2] = Step("store.insert", o, v)
    /\ log[3] = Step("add_observer", v, o)
    /\ log[4].ev = "notify" /\ log[4].obj = o /\ log[4].arg[1] = "item_inserted"

DeleteOrder(o, v) ==
    /\ Len(log) >= 3
    /\ log[1] = Step("remove_observer", v, o)
    /\ log[2] = Step("del store", o, v)
    /\ log[3].ev = "notify" /\ log[3].obj = o /\ log[3].arg[1] = "item_removed"
    /\ \A i \in StepsOf("remove_ref", v) :
           /\ i = Len(log) \/ (i = Len(log) - 1 /\ log[Len(log)].ev = "about_to_delete")
           /\ \E j \in StepsOf("remove_parent", v) : j < i
           /\ storage_writer[o] => \E j \in StepsOf("writer", o) : j < i
    /\ ~err => StepsOf("remove_ref", v) # {}

DeletedAfterRelease(o, v) ==
    StepsOf("about_to_delete", v) # {} =>
        /\ (storage_writer[o] /\ o \in Stored) =>
               Cardinality(RelSlots(o, v)) <= Slots(store[o], v)
        /\ ~PyIn(weak_observers[v], o)
        /\ ~PyIn(weak_parents[v], o)

C19_ContainerOrder ==
    \A o \in Objs : \A v \in Objs :
        /\ (\E i \in 1..Len(log) : log[i] = Step("store.insert", o, v)) => InsertOrder(o, v)
        /\ (\E i \in 1..Len(log) : log[i] = Step("del store", o, v)) =>
               (DeleteOrder(o, v) /\ DeletedAfterRelease(o, v))

(***************************************************************************)
(* C20.  container[index] = value on a MutableRelationship always raises   *)
(* and changes nothing: the backing lists, the items, properties and data, *)
(* every ref count, the observer, listener and parent registrations, the   *)
(* attached writers, the backend and the proxy's queue stay as they were.  *)
(***************************************************************************)
C20_SetIndexFails ==
    [][(\E o \in Objs : IsCall(o, "__setitem__")) =>
          /\ err'
          /\ UNCHANGED <<liveVars, objVars, storage_writer, queue>>
          /\ BackendUnchanged]_vars

\* an assignment to an index of a non-empty relationship of an attached
\* owner has been made
C20_Witness ==
    \E o \in Objs : \E v \in Objs :
        /\ log = <<Step("call", o, <<"__setitem__", v>>)>>
        /\ err
        /\ storage_writer[o]
        /\ store[o] # <<>>

(***************************************************************************)
(* The storage readers, DictStorageReader and DbStorageReader.  A reader   *)
(* call threads a record R through its steps:                              *)
(*   item_map  the reader's __item_map: identifier -> the instance built   *)
(*   built     identifier -> how often a constructor was invoked for it    *)
(*   made      instance -> what its constructor pulled from the reader     *)
(*   ret       what the call returns                                       *)
(*   ok        FALSE once a step has raised                                *)
(* An instance <<id, n>> is the n-th object constructed for id.  The       *)
(* DictStorageReader is handed the writer's node map and takes the node    *)
(* of an identifier from it; the DbStorageReader reads the tables and      *)
(* names a node by the string of its identifier.                           *)
(***************************************************************************)
\* how many calls the owner makes before a reader is opened
MaxReadCalls == 3

\* build_map: the type tags that have a constructor
build_map ==
    {"data-group", "smart-data-group", "data-item", "calibration", "line-graphic",
     "rect-graphic", "ellipse-graphic", "fft-operation", "inverse-fft-operation",
     "invert-operation", "gaussian-blur-operation", "resample-operation",
     "crop-operation", "histogram-operation", "line-profile-operation",
     "RGBtoGrayscale-operation"}

\* a type tag written by a subclass this reader has no constructor for
FutureType == "future-item"

\* what the constructor of a type pulls from the reader it is handed: its
\* relationship by get_items, its property by get_property, its data by
\* get_data
PulledRelationships(type) ==
    IF type \in {"data-group", "smart-data-group", "data-item"} THEN <<"rel">> ELSE <<>>
PulledProperties(type) == IF type \in {"data-item", "calibration"} THEN <<"title">> ELSE <<>>
PulledData(type) == IF type = "calibration" THEN <<"data">> ELSE <<>>

\* build_item's None: no object
NoItem == <<>>
Return(R, value) == [R EXCEPT !.ret = value]
Fail(R) == [R EXCEPT !.ok = FALSE, !.ret = None]

\* the instance a constructor makes for an identifier
NewInstance(R, id) == <<id, (IF id \in DOMAIN R.built THEN R.built[id] ELSE 0) + 1>>
Constructed(R, id) == [R EXCEPT !.built = Put(@, id, NewInstance(R, id)[2])]

\* DictStorageReader.get_property
DictGetProperty(R, id, key, default_value) ==
    LET parent_node == node_map[id]
        properties == IF "properties" \in parent_node.has
                      THEN parent_node.properties ELSE EmptyMap
    IN  Return(R, IF key \in DOMAIN properties THEN properties[key] ELSE default_value)

\* DictStorageReader.get_data
DictGetData(R, id, key, default_value) ==
    LET parent_node == node_map[id]
        data_items == IF "data_arrays" \in parent_node.has
                      THEN parent_node.data_arrays ELSE EmptyMap
    IN  Return(R, IF key \in DOMAIN data_items THEN data_items[key] ELSE default_value)

RECURSIVE DictBuildItem(_, _)
RECURSIVE DictBuildList(_, _, _)
\* [self.build_item(uuid) for uuid in relationships[key]]
DictBuildList(R, list, items) ==
    IF ~R.ok THEN R
    ELSE IF list = <<>> THEN Return(R, items)
    ELSE LET Rest(R1) == IF R1.ok
                         THEN DictBuildList(R1, Tail(list), Append(items, R1.ret))
                         ELSE R1
         IN  Rest(DictBuildItem(R, Head(list)))

\* DictStorageReader.get_items
DictGetItems(R, id, key) ==
    LET parent_node == node_map[id]
        relationships == IF "relationships" \in parent_node.has
                         THEN parent_node.relationships ELSE EmptyMap
    IN  IF key \in DOMAIN relationships
        THEN DictBuildList(R, relationships[key], <<>>)
        ELSE Return(R, <<>>)

\* build_map[type].build(self, node) and item._set_uuid(uuid_)
DictBuild(R, id, type) ==
    LET item == NewInstance(R, id)
        title == IF PulledProperties(type) = <<>> THEN None
                 ELSE DictGetProperty(R, id, PulledProperties(type)[1], None).ret
        data == IF PulledData(type) = <<>> THEN None
                ELSE DictGetData(R, id, PulledData(type)[1], None).ret
        Members(R1) == IF PulledRelationships(type) = <<>> THEN Return(R1, <<>>)
                       ELSE DictGetItems(R1, id, PulledRelationships(type)[1])
        Made(R2) == IF ~R2.ok THEN R2
                    ELSE Return([R2 EXCEPT !.made =
                                    Put(@, item, [type |-> type, title |-> title,
                                                  data |-> data, rel |-> R2.ret])],
                                item)
    IN  Made(Members(Constructed(R, id)))

\* a build_item that does not keep what it built in the item map
DictBuildItemAnew(R, uuid_) ==
    IF ~R.ok THEN R
    ELSE IF uuid_ \notin DOMAIN node_map THEN Fail(R)
    ELSE IF "type" \notin node_map[uuid_].has THEN Fail(R)
    ELSE IF node_map[uuid_].type \in build_map
         THEN DictBuild(R, uuid_, node_map[uuid_].type)
         ELSE Return(R, NoItem)

\* DictStorageReader.build_item
DictBuildItem(R, uuid_) ==
    IF ~R.ok THEN R
    ELSE IF uuid_ \in DOMAIN R.item_map THEN Return(R, R.item_map[uuid_])
    ELSE IF uuid_ \notin DOMAIN node_map THEN Fail(R)
    ELSE IF "type" \notin node_map[uuid_].has THEN Fail(R)
    ELSE LET type == node_map[uuid_].type
             Memo(R1) == IF R1.ok /\ R1.ret # NoItem
                         THEN [R1 EXCEPT !.item_map = Put(@, uuid_, R1.ret)]
                         ELSE R1
         IN  IF type \in build_map THEN Memo(DictBuild(R, uuid_, type))
             ELSE Return(R, NoItem)

\* DictStorageReader.get_item
DictGetItem(R, id, key, default_value) ==
    LET parent_node == node_map[id] IN
    IF "items" \notin parent_node.has THEN Fail(R)
    ELSE IF key \in DOMAIN parent_node.items
         THEN DictBuildItem(R, parent_node.items[key])
         ELSE Return(R, default_value)

\* DictStorageReader.find_root_node: the first node of the map with the type,
\* in the order the dict yields its keys; a node the loop meets before it
\* that has no "type" entry raises KeyError
DictFindRootNode(R, type) ==
    LET typed == {item \in DOMAIN node_map : "type" \in node_map[item].has}
        found == {item \in typed : node_map[item].type = type}
    IN  {Return(R, item) : item \in found}
        \cup (IF typed # DOMAIN node_map THEN {Fail(R)} ELSE {})
        \cup (IF found = {} /\ typed = DOMAIN node_map THEN {Return(R, None)} ELSE {})

\* DbStorageReader.get_property
DbGetProperty(R, parent_node, key, default_value) ==
    IF <<parent_node, key>> \in DOMAIN conn.properties
    THEN Return(R, Unpickle(conn.properties[<<parent_node, key>>]))
    ELSE Return(R, default_value)

\* DbStorageReader.get_data
DbGetData(R, parent_node, key, default_value) ==
    IF <<parent_node, key>> \in DOMAIN conn.data
    THEN Return(R, Unpickle(conn.data[<<parent_node, key>>]))
    ELSE Return(R, default_value)

RECURSIVE DbBuildItem(_, _)
RECURSIVE DbBuildList(_, _, _)
\* for row in c.fetchall(): items.append(self.build_item(row[0]))
DbBuildList(R, fetchall, items) ==
    IF ~R.ok THEN R
    ELSE IF fetchall = <<>> THEN Return(R, items)
    ELSE LET Rest(R1) == IF R1.ok
                         THEN DbBuildList(R1, Tail(fetchall), Append(items, R1.ret))
                         ELSE R1
         IN  Rest(DbBuildItem(R, Head(fetchall)))

\* DbStorageReader.get_items
DbGetItems(R, parent_node, key) ==
    DbBuildList(R, RowsInOrder(RowsOf(conn.relationships, parent_node, key)), <<>>)

\* build_map[type].build(self, uuid_) and item._set_uuid(uuid.UUID(uuid_))
DbBuild(R, uuid_, type) ==
    LET item == NewInstance(R, UUID(uuid_))
        title == IF PulledProperties(type) = <<>> THEN None
                 ELSE DbGetProperty(R, uuid_, PulledProperties(type)[1], None).ret
        data == IF PulledData(type) = <<>> THEN None
                ELSE DbGetData(R, uuid_, PulledData(type)[1], None).ret
        Members(R1) == IF PulledRelationships(type) = <<>> THEN Return(R1, <<>>)
                       ELSE DbGetItems(R1, uuid_, PulledRelationships(type)[1])
        Made(R2) == IF ~R2.ok THEN R2
                    ELSE Return([R2 EXCEPT !.made =
                                    Put(@, item, [type |-> type, title |-> title,
                                                  data |-> data, rel |-> R2.ret])],
                                item)
    IN  Made(Members(Constructed(R, UUID(uuid_))))

\* DbStorageReader.build_item
DbBuildItem(R, uuid_) ==
    IF ~R.ok THEN R
    ELSE IF uuid_ \in DOMAIN R.item_map THEN Return(R, R.item_map[uuid_])
    ELSE IF uuid_ \notin DOMAIN conn.nodes THEN Fail(R)
    ELSE LET type == conn.nodes[uuid_].type
             Memo(R1) == IF R1.ok /\ R1.ret # NoItem
                         THEN [R1 EXCEPT !.item_map = Put(@, uuid_, R1.ret)]
                         ELSE R1
         IN  IF type \in build_map THEN Memo(DbBuild(R, uuid_, type))
             ELSE Return(R, NoItem)

\* DbStorageReader.get_item
DbGetItem(R, parent_node, key, default_value) ==
    LET found == {r \in conn.items : r.parent_uuid = parent_node /\ r.key = key} IN
    IF found = {} THEN Fail(R)
    ELSE DbBuildItem(R, (CHOOSE r \in found : TRUE).item_uuid)

\* DbStorageReader.find_root_node: fetchone of the nodes with the type and
\* refcount 0, in the order the database yields them; TypeError without one
DbFindRootNode(R, type) ==
    LET found == {u \in DOMAIN conn.nodes :
                     conn.nodes[u].type = type /\ conn.nodes[u].refcount = 0}
    IN  IF found = {} THEN {Fail(R)} ELSE {Return(R, u) : u \in found}

(***************************************************************************)
(* The owner builds a graph through a writer, then opens the matching      *)
(* reader on what the writer holds and calls it.                           *)
(***************************************************************************)
\* the name of a node for the reader's calls
NodeOf(o) == IF kind = "dict" THEN o ELSE Str(o)
\* the identifier an instance was built for
IdOf(item) == item[1]

Default == "default"
\* the default the caller hands to get_item
DefaultItem == <<"default">>
ReadTypes == {"data-group", "data-item", "calibration", FutureType}
\* a key no object declares
NoKey == "nokey"

\* writer.set_type(o, type), called as a subclass with that type tag does
WriterSetType(o, type) ==
    /\ LET F(S) == set_type(S, o, type)
       IN  \E S \in {F(Call)} : OwnerCall(S, F(ShadowCall))
    /\ UNCHANGED liveVars

\* DictStorageReader(node_map), or DbStorageReader on the writer's database
Open ==
    /\ ~reader.open
    /\ reader' = [NoReader EXCEPT !.open = TRUE]
    /\ UNCHANGED <<liveVars, objVars, writerVars, proxyVars, storage_writer, err, calls,
                   reattached, tracing, log, raised, stmt, committed>>

\* a call on the reader returns (or raises)
ReaderCall(R, call) ==
    /\ reader.open
    /\ reader' = [R EXCEPT !.call = call]
    /\ UNCHANGED <<liveVars, objVars, writerVars, proxyVars, storage_writer, err, calls,
                   reattached, tracing, log, raised, stmt, committed>>

Reading == [reader EXCEPT !.ok = TRUE, !.ret = None]

FindRootNode(type) ==
    \E R \in (IF kind = "dict" THEN DictFindRootNode(Reading, type)
              ELSE DbFindRootNode(Reading, type)) :
        ReaderCall(R, <<"find_root_node", type>>)

BuildItem(o) ==
    LET F(R) == IF kind = "dict" THEN DictBuildItem(R, o) ELSE DbBuildItem(R, Str(o))
    IN  ReaderCall(F(Reading), <<"build_item", o>>)

GetItem(o, key) ==
    LET F(R) == IF kind = "dict" THEN DictGetItem(R, o, key, DefaultItem)
                ELSE DbGetItem(R, Str(o), key, DefaultItem)
    IN  ReaderCall(F(Reading), <<"get_item", o, key>>)

GetItems(o, key) ==
    LET F(R) == IF kind = "dict" THEN DictGetItems(R, o, key)
                ELSE DbGetItems(R, Str(o), key)
    IN  ReaderCall(F(Reading), <<"get_items", o, key>>)

GetProperty(o, key) ==
    LET F(R) == IF kind = "dict" THEN DictGetProperty(R, o, key, Default)
                ELSE DbGetProperty(R, Str(o), key, Default)
    IN  ReaderCall(F(Reading), <<"get_property", o, key>>)

GetData(o, key) ==
    LET F(R) == IF kind = "dict" THEN DictGetData(R, o, key, Default)
                ELSE DbGetData(R, Str(o), key, Default)
    IN  ReaderCall(F(Reading), <<"get_data", o, key>>)

ReadInit == Init

WriteNext ==
    \/ Rewrite
    \/ \E o \in Objs : \E value \in Kids(o) : \E index \in 0..Len(store[o]) :
           Insert(o, index, value)
    \/ \E o \in Objs : \E item \in Kids(o) : SetItem(o, item)
    \/ \E o \in Objs : \E value \in PropVals : SetProperty(o, value)
    \/ \E o \in Objs : \E data \in DataVals : SetData(o, data)
    \/ \E o \in Objs : WriterSetType(o, FutureType)

ReadNext ==
    \/ ~reader.open /\ calls < MaxReadCalls /\ WriteNext
    \/ Open
    \/ \E type \in ReadTypes : FindRootNode(type)
    \/ \E o \in Stored : BuildItem(o)
    \/ \E o \in Stored : \E key \in {"item", NoKey} : GetItem(o, key)
    \/ \E o \in Stored : \E key \in {"rel", NoKey} : GetItems(o, key)
    \/ \E o \in Stored : \E key \in {"title", NoKey} : GetProperty(o, key)
    \/ \E o \in Stored : \E key \in {"data", NoKey} : GetData(o, key)

ReadSpec == ReadInit /\ [][ReadNext]_vars

\* the reader's last call was name: it has returned, or raised
Called(name) == Len(reader.call) > 0 /\ reader.call[1] = name
\* the identifier of the node a find_root_node call returned
FoundId == IF kind = "dict" THEN reader.ret ELSE UUID(reader.ret)
\* the type tag the backend holds for a stored node
TypeOf(o) == IF IsDict THEN node_map[o].type ELSE conn.nodes[Str(o)].type

(***************************************************************************)
(* C21.  For both readers, the node find_root_node(type_tag) returns has   *)
(* the type type_tag and ref count 0: a node with inbound references is    *)
(* never returned, even when it has the requested type tag.                *)
(***************************************************************************)
C21_FindRootNode ==
    (Called("find_root_node") /\ reader.ok /\ (kind = "dict" => reader.ret # None)) =>
        /\ TypeOf(FoundId) = reader.call[2]
        /\ RefCount(FoundId) = 0

\* the instances a list of built items holds
Instances(items) == {items[i] : i \in 1..Len(items)} \ {NoItem}
\* the instance the reader keeps for the identifier of an instance
Kept(item) == IF NodeOf(IdOf(item)) \in DOMAIN reader.item_map
              THEN reader.item_map[NodeOf(IdOf(item))] ELSE NoItem

Unknown(o) == o \in Stored /\ TypeOf(o) \notin (build_map \cup {NoType, NULL})
\* the members the backend holds for a node's relationship, in order
MembersOf(o, key) ==
    IF IsDict
    THEN (IF key \in DOMAIN node_map[o].relationships
          THEN node_map[o].relationships[key] ELSE <<>>)
    ELSE [i \in 1..Len(RowsInOrder(RowsOf(conn.relationships, Str(o), key))) |->
             UUID(RowsInOrder(RowsOf(conn.relationships, Str(o), key))[i])]

(***************************************************************************)
(* C23.  For both readers a node whose type tag is not in build_map is     *)
(* skipped without error: build_item of it raises nothing, invokes no      *)
(* constructor and returns no object; get_items on a relationship that     *)
(* holds such a node raises nothing and its list has no entry for the      *)
(* unknown node, only built objects.                                       *)
(***************************************************************************)
C23_UnknownSkipped ==
    /\ (Called("build_item") /\ Unknown(reader.call[2])) =>
           /\ reader.ok
           /\ reader.ret = NoItem
           /\ reader.call[2] \notin DOMAIN reader.built
    /\ (Called("get_items")
            /\ \E i \in 1..Len(MembersOf(reader.call[2], reader.call[3])) :
                   Unknown(MembersOf(reader.call[2], reader.call[3])[i])) =>
           /\ reader.ok
           /\ \A i \in 1..Len(reader.ret) : reader.ret[i] # NoItem

\* whether the backend holds an entry of a kind under a key of a stored node
HasEntry(what, o, key) ==
    CASE what = "property" ->
             IF IsDict THEN key \in DOMAIN node_map[o].properties
             ELSE <<Str(o), key>> \in DOMAIN conn.properties
      [] what = "data" ->
             IF IsDict THEN key \in DOMAIN node_map[o].data_arrays
             ELSE <<Str(o), key>> \in DOMAIN conn.data
      [] what = "item" ->
             IF IsDict THEN key \in DOMAIN node_map[o].items
             ELSE \E r \in conn.items : r.parent_uuid = Str(o) /\ r.key = key
      [] OTHER ->
             IF IsDict THEN key \in DOMAIN node_map[o].relationships
             ELSE RowsOf(conn.relationships, Str(o), key) # {}

(***************************************************************************)
(* C24.  For both readers, when the node has no entry under the key (also  *)
(* when it has no properties, items or data at all), get_property,         *)
(* get_item and get_data return the caller's default without raising, and  *)
(* get_items returns the empty list.                                       *)
(***************************************************************************)
C24_DefaultsForMissingKeys ==
    /\ (Called("get_property") /\ ~HasEntry("property", reader.call[2], reader.call[3]))
           => (reader.ok /\ reader.ret = Default)
    /\ (Called("get_data") /\ ~HasEntry("data", reader.call[2], reader.call[3]))
           => (reader.ok /\ reader.ret = Default)
    /\ (Called("get_item") /\ ~HasEntry("item", reader.call[2], reader.call[3]))
           => (reader.ok /\ reader.ret = DefaultItem)
    /\ (Called("get_items") /\ ~HasEntry("relationship", reader.call[2], reader.call[3]))
           => (reader.ok /\ reader.ret = <<>>)

(***************************************************************************)
(* The owner's calls on a graph attached to a connected writer, with the   *)
(* steps of each call recorded.                                            *)
(***************************************************************************)
RewriteInit ==
    /\ InitLive
    /\ InitProxy
    /\ tracing = TRUE
    /\ kind \in {"dict", "db"}
    /\ node_map = IF kind = "dict" THEN Put(EmptyMap, Root, NewNode) ELSE EmptyMap
    /\ conn = IF kind = "db" THEN RootConn ELSE EmptyConn
    /\ shadow = EmptyConn

RewriteSpec == RewriteInit /\ [][Next]_vars

\* the value the backend holds for a property or data key of a stored node
StoredValue(what, o, key) ==
    IF IsDict
    THEN (IF what = "property" THEN node_map[o].properties[key]
          ELSE node_map[o].data_arrays[key])
    ELSE Unpickle(IF what = "property" THEN conn.properties[<<Str(o), key>>]
                  ELSE conn.data[<<Str(o), key>>])

\* the backend holds the graph below the root, and nothing else
HoldsLiveGraphOnly ==
    /\ Stored = Below({Root}, {Root})
    /\ \A n \in Stored : (RefCount(n) = 0) = (n = Root)
    /\ \A n \in Objs \ Stored : ~HasEntries(n)
    /\ \A n \in Stored :
           /\ MembersOf(n, "rel") = store[n]
           /\ {u \in Objs : ItemEntries(n, u) # {}} = ({single[n]} \ {None})
           /\ HasEntry("property", n, "title") => StoredValue("property", n, "title") = prop[n]
           /\ HasEntry("data", n, "data") => StoredValue("data", n, "data") = blob[n]

(***************************************************************************)
(* C25.  Either backend, connected: rewrite() on the root completes        *)
(* without error, and after it the backend holds only what the rewrite     *)
(* wrote: the nodes are the root and the objects reachable from it, the    *)
(* root is the only node with ref count 0, and no node, property, data,    *)
(* single-item or relationship entry of the graph the backend held before  *)
(* remains.                                                                *)
(***************************************************************************)
C25_RewriteReplaces ==
    [][IsCall(Root, "rewrite") => (~err' /\ HoldsLiveGraphOnly')]_vars

\* what the matching reader, newly opened, returns for a property or data
\* key of a stored node (Default when it finds no entry)
ReadBack(what, o, key) ==
    IF what = "property"
    THEN (IF IsDict THEN DictGetProperty(NoReader, o, key, Default)
          ELSE DbGetProperty(NoReader, Str(o), key, Default)).ret
    ELSE (IF IsDict THEN DictGetData(NoReader, o, key, Default)
          ELSE DbGetData(NoReader, Str(o), key, Default)).ret

\* the backend holds the declared shape of live object o
HoldsShape(o) ==
    /\ o \in Stored
    /\ TypeOf(o) = storage_type(o)
    /\ \A i \in 1..Len(storage_properties(o)) :
           ReadBack("property", o, storage_properties(o)[i]) = prop[o]
    /\ \A i \in 1..Len(storage_items(o)) :
           single[o] # None => ItemEntries(o, single[o]) = {<<"items", storage_items(o)[i]>>}
    /\ \A i \in 1..Len(storage_relationships(o)) :
           MembersOf(o, storage_relationships(o)[i]) = store[o]
    /\ \A i \in 1..Len(storage_data_keys(o)) :
           blob[o] # None => ReadBack("data", o, storage_data_keys(o)[i]) = blob[o]

(***************************************************************************)
(* C26.  Round trip, either backend, connected: after rewrite() on the     *)
(* root, the node of every object reachable from it holds the object's     *)
(* type tag, the current value of each declared property whatever the      *)
(* value is (empty values too), each set single item, each relationship    *)
(* list in the container's order and each data blob that is not None, as   *)
(* the matching reader reads them back.                                    *)
(***************************************************************************)
C26_RoundTrip ==
    [][IsCall(Root, "rewrite") =>
           \A o \in Below({Root}, {Root})' : HoldsShape(o)']_vars

(***************************************************************************)
(* notify_listeners and notify_parents.  The lists hold weak references:   *)
(* when a registered object is collected, its entries stay in the lists    *)
(* and yield None (Dead stands for such an entry).                         *)
(***************************************************************************)
Dead == "dead"

\* self.listeners, self.parents: [weak() for weak in the list]
Targets(list) == [i \in 1..Len(list) |-> IF list[i] = Dead THEN None ELSE list[i]]

RECURSIVE Dispatch(_, _, _)
\* a loop that stops after the first target it has invoked
DispatchFirst(S, targets, fn) ==
    IF ~S.ok \/ targets = <<>> THEN S
    ELSE IF HasCallback(Head(targets), fn) THEN Logged(S, "invoke", Head(targets), fn)
    ELSE Dispatch(S, Tail(targets), fn)

\* for target in targets: if hasattr(target, fn): getattr(target, fn)(*args)
Dispatch(S, targets, fn) ==
    IF ~S.ok \/ targets = <<>> THEN S
    ELSE Dispatch(IF HasCallback(Head(targets), fn)
                  THEN Logged(S, "invoke", Head(targets), fn) ELSE S,
                  Tail(targets), fn)

\* StorageBase.notify_listeners
notify_listeners(S, o, fn) == Dispatch(S, Targets(S.obj.weak_listeners[o]), fn)
\* StorageBase.notify_parents
notify_parents(S, o, fn) == Dispatch(S, Targets(S.obj.weak_parents[o]), fn)

\* o.notify_listeners(fn)
NotifyListeners(o, fn) ==
    LET F(S) == notify_listeners(Logged(S, "call", o, <<"notify_listeners", fn>>), o, fn)
    IN  \E S \in {F(Call)} : ApiCall(S, F(ShadowCall))

\* o.notify_parents(fn)
NotifyParents(o, fn) ==
    LET F(S) == notify_parents(Logged(S, "call", o, <<"notify_parents", fn>>), o, fn)
    IN  \E S \in {F(Call)} : ApiCall(S, F(ShadowCall))

\* a registered object x is collected: the weak references to it are dead
Collected(list, x) == [i \in 1..Len(list) |-> IF list[i] = x THEN Dead ELSE list[i]]
Die(x) ==
    /\ \E o \in Objs : PyIn(weak_listeners[o], x) \/ PyIn(weak_parents[o], x)
                           \/ PyIn(weak_observers[o], x)
    /\ weak_listeners' = [o \in Objs |-> Collected(weak_listeners[o], x)]
    /\ weak_parents' = [o \in Objs |-> Collected(weak_parents[o], x)]
    /\ weak_observers' = [o \in Objs |-> Collected(weak_observers[o], x)]
    /\ UNCHANGED <<liveVars, writerVars, proxyVars, auxVars, storage_writer, err, calls,
                   refCount, deleted>>

Notifications == {"data_item_changed"}

ListenInit == ObjInit

ListenNext ==
    \/ \E o \in ApiObjs : \E what \in {"listener", "parent"} : \E x \in Registrants :
           Register(o, what, x)
    \/ \E o \in ApiObjs : \E what \in {"listener", "parent"} : \E x \in Registrants :
           Unregister(o, what, x)
    \/ Die(Watcher)
    \/ \E o \in ApiObjs : \E fn \in Notifications : NotifyListeners(o, fn)
    \/ \E o \in ApiObjs : \E fn \in Notifications : NotifyParents(o, fn)

ListenSpec == ListenInit /\ [][ListenNext]_vars

\* the targets invoked by the call the log holds, in order
Invoked(steps) == [i \in 1..(Len(steps) - 1) |-> steps[i + 1].obj]
\* the registrations of a list that are alive and have the attribute, in order
LiveWith(list, fn) ==
    LET Test(x) == x # Dead /\ HasCallback(x, fn) IN SelectSeq(list, Test)

IsWorkerStep == done' # done \/ worker' # worker
\* a step of the owner's thread: a call is made, or to_string returns
IsOwnerStep == calls' # calls \/ waiting' # waiting

\* the live graph with another value in every property attribute
OtherLive == [Live EXCEPT !.prop = [o \in Objs |-> IF prop[o] = "" THEN "t1" ELSE ""]]

\* what the next turn of the worker does is the same whatever the live
\* objects hold
WorkerIgnoresLive ==
    (worker = "running" /\ queue # <<>> /\ Subscriptable(Dequeue(queue).action)) =>
        RunUnit(Call, Live, Dequeue(queue).action.unit)
            = RunUnit(Call, OtherLive, Dequeue(queue).action.unit)

(***************************************************************************)
(* C28.  Proxy attached: the worker's thread touches backend state only.   *)
(* A unit it executes neither reads the live objects (what it does is the  *)
(* same whatever their attributes hold) nor changes them (properties,      *)
(* containers, writer pointers, ref counts and observer, listener and      *)
(* parent lists stay as they are); and the owner's thread neither reads    *)
(* nor writes the state of the DbStorageWriter (connection, disconnected   *)
(* flag, last_to_string).                                                  *)
(***************************************************************************)
C28_ThreadConfinement ==
    /\ []WorkerIgnoresLive
    /\ [][IsWorkerStep => UNCHANGED <<liveVars, objVars, storage_writer>>]_vars
    /\ [][IsOwnerStep => UNCHANGED <<conn, disconnected, last_to_string>>]_vars

(***************************************************************************)
(* Commits of a DbStorageWriter attached directly.                         *)
(***************************************************************************)
\* the owner's last call returned and the committed tables are the tables
\* the connection works on
CommittedBetweenCalls == (kind = "db" /\ ~err) => committed = conn

\* root.rewrite() up to, and not including, end_rewrite()
BeforeEndRewrite == write(set_root(begin_rewrite(Call), Root), Live, Root)

\* nothing is committed between begin_rewrite() and end_rewrite()
BracketCommitsAtEnd ==
    (IsCall(Root, "rewrite") /\ kind = "db" /\ ~disconnected /\ storage_writer[Root])
        => BeforeEndRewrite.com = committed

(***************************************************************************)
(* C29.  DbStorageWriter: outside a begin_rewrite/end_rewrite bracket      *)
(* every mutating call (set_root, set_type, set_property, set_data,        *)
(* set_item, clear_item, insert_item, remove_item) has committed all of    *)
(* its changes when it returns, so that between calls the committed        *)
(* tables equal the tables the connection works on; inside a bracket       *)
(* nothing is committed before end_rewrite.                                *)
(***************************************************************************)
C29_CommitDiscipline ==
    /\ []CommittedBetweenCalls
    /\ [][BracketCommitsAtEnd]_vars

(***************************************************************************)
(* MutableRelationship.insert and __delitem__ with every index a Python    *)
(* list accepts: insert takes any integer (beyond the end it appends,      *)
(* negative it counts from the end and stops at the front), del takes      *)
(* -len .. len-1.  Both backends, connected.                               *)
(***************************************************************************)
\* the index arguments: from one before -len to one beyond len of a full list
AnyIndices == (0 - (MaxLen + 1))..(MaxLen + 1)

IndexNext ==
    \/ \E o \in Objs : \E value \in Kids(o) : \E index \in AnyIndices :
           Insert(o, index, value)
    \/ \E o \in Objs : \E index \in AnyIndices : Delete(o, index)

IndexSpec == RewriteInit /\ [][IndexNext]_vars

\* o's container has changed in this step, and o has a connected writer
ContainerChanged(o) == store'[o] # store[o] /\ storage_writer[o] /\ ~disconnected

\* the backend holds o's relationship in the order of o's container
SameOrder(o) == o \in Stored /\ MembersOf(o, "rel") = store[o]

(***************************************************************************)
(* C30.  For every index MutableRelationship.insert and del accept         *)
(* (insert beyond the length, negative indices), after the call the        *)
(* backend's order of the relationship is the order of the in-memory       *)
(* container (so the other members keep their relative order), on the      *)
(* DictStorageWriter and on the DbStorageWriter.                           *)
(***************************************************************************)
C30_AnyIndexOrder ==
    [][\A o \in Objs : ContainerChanged(o) => (~err' /\ SameOrder(o)')]_vars

(***************************************************************************)
(* The steps of a notify method, as the log of the call records them.      *)
(***************************************************************************)
\* the call of this step is the notify method of the given callback, on o
IsNotify(o, name) ==
    /\ calls' = calls + 1
    /\ Len(log') > 0
    /\ log'[1].ev = "notify"
    /\ log'[1].obj = o
    /\ log'[1].arg[1] = name

\* the positions of the recorded steps of the given kind
StepsAt(steps, ev) == {i \in 1..Len(steps) : steps[i].ev = ev}

\* how many registered observers of o implement the callback
Implementing(o, name) ==
    Cardinality({i \in 1..Len(weak_observers[o]) : HasCallback(weak_observers[o][i], name)})

(***************************************************************************)
(* C31.  notify_set_item(key, item) on an object with registered observers *)
(* completes without error and invokes item_set once on every registered   *)
(* live observer that implements it, after the writer call (when a writer  *)
(* is attached) and after the object has been added as a parent of item.   *)
(***************************************************************************)
C31_ItemSetDelivered ==
    [][\A o \in Objs :
          (IsNotify(o, "item_set") /\ weak_observers[o] # <<>>) =>
              /\ ~err'
              /\ Cardinality(StepsAt(log', "callback")) = Implementing(o, "item_set")
              /\ \A i \in StepsAt(log', "callback") :
                     /\ \E j \in StepsAt(log', "add_parent") : j < i
                     /\ storage_writer[o] => \E j \in StepsAt(log', "writer") : j < i]_vars

(***************************************************************************)
(* C32.  A DbStorageWriter mutating call that raises has no effect on the  *)
(* backend: the committed tables and the tables the connection works on    *)
(* are after the failed call what they were before it, so that no later    *)
(* commit persists a part of the failed call.                              *)
(***************************************************************************)
C32_FailedCallHasNoEffect ==
    [][(calls' = calls + 1 /\ "db" \in raised') =>
           (conn' = conn /\ committed' = committed)]_vars

(***************************************************************************)
(* The proxy with the owner setting and clearing the disconnected flag:    *)
(* the property of the proxy assigns storage_writer.disconnected on the    *)
(* owner's thread, and the DbStorageWriter method of a unit tests the flag *)
(* when the worker runs it.  A unit carries, as disc, the value the flag   *)
(* had when the unit was put on the queue.                                 *)
(***************************************************************************)
ProxyWindowNext ==
    \/ ProxyNext
    \/ \E value \in BOOLEAN : SetDisconnected(value)

ProxyWindowSpec == ProxyInit /\ [][ProxyWindowNext]_vars

\* the worker runs a write of the owner in this step
RunsOwnerWrite ==
    /\ worker = "running"
    /\ queue # <<>>
    /\ done' # done
    /\ Dequeue(queue).action.by = "owner"
    /\ Dequeue(queue).action.unit.op \notin {"to_string", "None"}

(***************************************************************************)
(* C33.  Proxy attached: the disconnected window is decided by the order   *)
(* in which the owner issues its calls.  A write issued before             *)
(* disconnected was set is applied to the backend (the writer's method     *)
(* finds the flag clear when the unit runs), and a write issued while      *)
(* disconnected was set is never applied (the unit leaves the tables as    *)
(* they are), also when the flag is cleared before the worker takes it.    *)
(***************************************************************************)
C33_WindowByIssueOrder ==
    [][RunsOwnerWrite =>
          /\ ~Dequeue(queue).action.disc => ~disconnected
          /\ Dequeue(queue).action.disc => conn' = conn]_vars

(***************************************************************************)
(* Objects held only through MutableRelationship containers: the calls are *)
(* insert and del (IndexSpec), nobody else calls add_ref or registers.     *)
(***************************************************************************)
\* the container slots that hold v
Holders(v) ==
    {h \in Objs \X (1..MaxLen) : h[2] <= Len(store[h[1]]) /\ store[h[1]][h[2]] = v}

\* ref count, parents and the owners' observer registrations of every object
\* are its container slots, owner by owner
Balanced ==
    \A v \in Objs :
        /\ refCount[v] = Cardinality(Holders(v))
        /\ Len(weak_parents[v]) = Cardinality(Holders(v))
        /\ \A o \in Objs :
               /\ Slots(weak_parents[v], o) = Slots(store[o], v)
               /\ Slots(weak_observers[v], o) = Slots(store[o], v)

(***************************************************************************)
(* C34.  For objects held only through MutableRelationship containers,     *)
(* after insert and del calls that completed without error the ref count   *)
(* of each object is the number of container slots holding it, the number  *)
(* of parent registrations on it, and the number of observer registrations *)
(* its owners made on it; when remove_ref takes the count to zero and       *)
(* about_to_delete runs, the object has no such observers and no parents.  *)
(***************************************************************************)
C34_CountsAreSlots ==
    [][(Balanced /\ calls' = calls + 1 /\ ~err') =>
          /\ Balanced'
          /\ \A v \in Objs :
                 deleted'[v] # deleted[v] =>
                     /\ refCount'[v] = 0
                     /\ weak_parents'[v] = <<>>
                     /\ \A o \in Objs : Slots(weak_observers'[v], o) = 0]_vars

\* one object is held in a slot, and another one was taken out of its last
\* slot: about_to_delete has run on it
C34_Witness ==
    /\ ~err
    /\ Balanced
    /\ \E v \in Objs : refCount[v] = 1 /\ Slots(weak_parents[v], Root) = 1
    /\ \E w \in Objs : deleted[w] = 1 /\ refCount[w] = 0

(***************************************************************************)
(* An object that the backend holds already is linked a second time.       *)
(***************************************************************************)
\* the single-item entries and relationship slots stored node v owns
OwnEntries(v) ==
    UNION {{<<u, e>> : e \in ItemEntries(v, u) \cup RelSlots(v, u)} : u \in Objs}

\* this step puts v, which some stored entry holds already, into a further
\* slot or single item of the attached object o
LinksStored(o, v) ==
    /\ kind \in {"dict", "db"}
    /\ ~disconnected
    /\ storage_writer[o]
    /\ v \in Stored
    /\ Edges(v) >= 1
    /\ \/ Slots(store'[o], v) > Slots(store[o], v)
       \/ single'[o] = v /\ single[o] # v

\* what a second write() finds to change after a first one
SecondWrite(S1, o) ==
    LET Same(S2) == S2.ok /\ S2.node_map = S1.node_map /\ S2.conn = S1.conn
    IN  S1.ok => Same(write(S1, Live, o))

WriteIsIdempotent ==
    \A o \in Objs :
        (kind \in {"dict", "db"} /\ ~disconnected /\ storage_writer[o] /\ o \in Stored)
            => SecondWrite(write(Call, Live, o), o)

(***************************************************************************)
(* C35.  Inserting, or setting as single item, an object the backend holds *)
(* already changes in the backend only the new entry of the parent and the *)
(* object's ref count (+1): the object's own stored relationship lists and *)
(* single items and the ref counts of its descendants stay as they were.   *)
(* And write() called twice on an attached object leaves the backend as    *)
(* one call leaves it.                                                     *)
(***************************************************************************)
C35_LinkWritesParentOnly ==
    /\ [][\A o \in Objs : \A v \in Objs :
             LinksStored(o, v) =>
                 /\ ~err'
                 /\ v \in Stored'
                 /\ RefCount(v)' = RefCount(v) + 1
                 /\ OwnEntries(v)' = OwnEntries(v)
                 /\ \A d \in Reach(v) \ {v} :
                        d \in Stored' /\ RefCount(d)' = RefCount(d)]_vars
    /\ []WriteIsIdempotent

(***************************************************************************)
(* The writer of a removed child.                                          *)
(***************************************************************************)
\* this step takes v out of a slot, or out of the single item, of o, which
\* has a writer, and the call returns
Unlinks(o, v) ==
    /\ storage_writer[o]
    /\ ~err'
    /\ \/ Slots(store'[o], v) < Slots(store[o], v)
       \/ single[o] = v /\ single'[o] = None

\* the removed child and everything it holds
Subtree(v) == Below({v}, {v})

(***************************************************************************)
(* C36.  notify_remove_item and notify_clear_item on an owner with a       *)
(* writer set the writer of the removed child to None, and that of the     *)
(* child's whole subtree, also when the child is still a member of a       *)
(* relationship of an attached object; a child without writer does not     *)
(* forward its later mutations to the backend.                             *)
(***************************************************************************)
C36_RemovedChildLosesWriter ==
    /\ [][\A o \in Objs : \A v \in Kids(o) :
             Unlinks(o, v) => \A x \in Subtree(v)' : ~storage_writer'[x]]_vars
    /\ [][\A v \in Objs : (~storage_writer[v] /\ Mutated(v)) => BackendUnchanged]_vars

\* Z was in two slots of the attached root and has been taken out of one: it
\* is stored with ref count 1 and has no writer, and the title it was given
\* afterwards is not in the backend
C36_Witness ==
    /\ ~err
    /\ storage_writer[Root]
    /\ Slots(store[Root], "Z") = 1
    /\ "Z" \in Stored
    /\ RefCount("Z") = 1
    /\ ~storage_writer["Z"]
    /\ prop["Z"] = "t1"
    /\ ~HasEntry("property", "Z", "title")

(***************************************************************************)
(* C37.  Proxy: a unit put on the queue after close() has been called is   *)
(* never executed and its event is never set; a to_string call issued      *)
(* after close() never returns.                                            *)
(***************************************************************************)
C37_AfterCloseNeverRuns ==
    /\ [](\A i \in DOMAIN done : done[i].preclose /\ done[i].id <= premax)
    /\ [](\A id \in events : id <= premax)
    /\ [][(closed /\ waiting > premax) => (waiting' = waiting /\ returned' = returned)]_vars

\* close() was called, then to_string(): the worker has taken the sentinel,
\* the to_string unit is on the queue, and the owner waits on its event
C37_Witness ==
    /\ closed
    /\ worker = "died"
    /\ waiting > premax
    /\ \E i \in DOMAIN queue : queue[i].id = waiting /\ queue[i].unit.op = "to_string"
    /\ waiting \notin events

(***************************************************************************)
(* The writer raises inside a notify method: the call of this step raises, *)
(* it has entered the notify method of o, which has a writer, and the      *)
(* writer call has not returned.                                           *)
(***************************************************************************)
\* the notify step of the recorded call
NotifyStep(steps) == steps[CHOOSE i \in StepsAt(steps, "notify") : TRUE]

WriterRaisedIn(o, name) ==
    /\ calls' = calls + 1
    /\ err'
    /\ storage_writer[o]
    /\ StepsAt(log', "notify") # {}
    /\ StepsAt(log', "writer") = {}
    /\ NotifyStep(log').obj = o
    /\ NotifyStep(log').arg[1] = name

\* insert and del with every index, on objects a panel may observe
RollbackNext ==
    \/ IndexNext
    \/ \E o \in Objs : AddObserver(o)

RollbackSpec == RewriteInit /\ [][RollbackNext]_vars

(***************************************************************************)
(* C38.  No rollback.  When the writer raises inside notify_insert_item,   *)
(* the value stays in the backing list, with its ref count incremented and *)
(* the owner registered as its observer, the owner is not registered as    *)
(* its parent and no item_inserted callback is made.  When the writer      *)
(* raises inside notify_remove_item, the value is gone from the backing    *)
(* list and the owner no longer observes it, its ref count is not          *)
(* decremented and the owner stays registered as its parent: no parent     *)
(* registration is removed (after a failed insert there is none to keep).  *)
(***************************************************************************)
C38_NoRollback ==
    [][\A o \in Objs : \A v \in Kids(o) :
          /\ (WriterRaisedIn(o, "item_inserted") /\ NotifyStep(log').arg[3] = v) =>
                 /\ store'[o] = PyInsert(store[o], NotifyStep(log').arg[4], v)
                 /\ refCount'[v] = refCount[v] + 1
                 /\ weak_observers'[v] = Append(weak_observers[v], o)
                 /\ weak_parents'[v] = weak_parents[v]
                 /\ StepsAt(log', "callback") = {}
          /\ (WriterRaisedIn(o, "item_removed") /\ NotifyStep(log').arg[3] = v) =>
                 /\ store'[o] = PyDel(store[o], NotifyStep(log').arg[4])
                 /\ weak_observers'[v] = PyRemove(weak_observers[v], o)
                 /\ refCount'[v] = refCount[v]
                 /\ weak_parents'[v] = weak_parents[v]
                 /\ PyIn(weak_parents[v], o) => PyIn(weak_parents'[v], o)
                 /\ StepsAt(log', "callback") = {}]_vars

\* the panel observes the root; del on the root's container has raised in
\* the writer: the value is out of the container and still has the root as
\* parent and its reference
C38_Witness ==
    /\ err
    /\ storage_writer[Root]
    /\ PyIn(weak_observers[Root], Watcher)
    /\ StepsAt(log, "notify") # {}
    /\ StepsAt(log, "writer") = {}
    /\ NotifyStep(log).arg[1] = "item_removed"
    /\ \E v \in Kids(Root) :
           /\ NotifyStep(log).arg[3] = v
           /\ Slots(store[Root], v) = 0
           /\ refCount[v] = 1
           /\ weak_parents[v] = <<Root>>
           /\ weak_observers[v] = <<>>

(***************************************************************************)
(* Referential integrity of the stored graph.                              *)
(***************************************************************************)
\* the ids single-item entries and relationship slots hold
HeldIds ==
    IF IsDict
    THEN UNION {{node_map[p].items[k] : k \in DOMAIN node_map[p].items}
                \cup UNION {{node_map[p].relationships[k][i] :
                                 i \in DOMAIN node_map[p].relationships[k]} :
                            k \in DOMAIN node_map[p].relationships} :
                p \in DOMAIN node_map}
    ELSE {UUID(r.item_uuid) : r \in conn.items \cup conn.relationships}

\* the ids that own a property, data, single-item or relationship entry; the
\* entries of the in-memory backend are inside the node of their owner
OwnerIds ==
    IF IsDict THEN DOMAIN node_map
    ELSE {UUID(k[1]) : k \in DOMAIN conn.properties \cup DOMAIN conn.data}
         \cup {UUID(r.parent_uuid) : r \in conn.items \cup conn.relationships}

(***************************************************************************)
(* C39.  Either backend, between the owner's connected calls on the live   *)
(* graph: every id a single-item entry or relationship slot holds, and     *)
(* every id that owns a property, data, single-item or relationship entry, *)
(* is the id of a stored node.                                             *)
(***************************************************************************)
C39_NoDanglingIds == (HeldIds \cup OwnerIds) \subseteq Stored
====
